---------------------------- MODULE Spec2Model ----------------------------
(***************************************************************************)
(* Verification model of network-validator: the subnet matcher and the     *)
(* bond relation resolver of package netplan, the agent's probe run        *)
(* (package agent, cmd handler) and the aggregator's run-trigger fan-out.  *)
(*                                                                         *)
(* Strings that the code parses (addresses, CIDRs) are sequences of        *)
(* one-character strings, so that parsing is computed, not assumed.        *)
(***************************************************************************)
EXTENDS Integers, Sequences, FiniteSets, TLC

(***************************************************************************)
(* Bounds of the model.                                                    *)
(***************************************************************************)
\* longest target list (flattened hostname/bond/ip triples) of one trigger
MaxTargets == 2

\* number of hosts that can be registered with the aggregator
NHosts == 2

\* number of VLAN or bridge interfaces a topology declares besides its bonds
MaxIfaces == 2

MaxRegistrations == 3

MaxFiles == 2

\* how many run-triggers the aggregator receives
MaxTriggers == 2

\* how many ticks the registration ticker delivers
MaxTicks == 3

(***************************************************************************)
(* Text helpers.                                                           *)
(***************************************************************************)
Digits == {"0", "1", "2", "3", "4", "5", "6", "7", "8", "9"}

DigitChars == <<"0", "1", "2", "3", "4", "5", "6", "7", "8", "9">>

DigitVal(c) == CASE c = "0" -> 0 [] c = "1" -> 1 [] c = "2" -> 2 [] c = "3" -> 3
                 [] c = "4" -> 4 [] c = "5" -> 5 [] c = "6" -> 6 [] c = "7" -> 7
                 [] c = "8" -> 8 [] OTHER -> 9

\* decimal text of a number below 1000 (builds the inputs; fmt/yaml side)
Dec(n) == IF n < 10 THEN <<DigitChars[n + 1]>>
          ELSE IF n < 100 THEN <<DigitChars[(n \div 10) + 1], DigitChars[(n % 10) + 1]>>
          ELSE <<DigitChars[(n \div 100) + 1], DigitChars[((n \div 10) % 10) + 1],
                 DigitChars[(n % 10) + 1]>>

IPText(a, b, c, d) == Dec(a) \o <<".">> \o Dec(b) \o <<".">> \o Dec(c) \o <<".">> \o Dec(d)

CIDRText(a, b, c, d, m) == IPText(a, b, c, d) \o <<"/">> \o Dec(m)

\* the positions of character c in s
Positions(s, c) == {i \in 1..Len(s) : s[i] = c}

Least(S) == CHOOSE i \in S : \A j \in S : i <= j

\* strings.Index(s, c): 1-based position of the first c, 0 when absent
IndexOf(s, c) == IF Positions(s, c) = {} THEN 0 ELSE Least(Positions(s, c))

\* (variant: the argument taken as it is)
keepCIDR(ip) == ip

\* stripCIDR: the text before the first "/"
stripCIDR(ip) == LET idx == IndexOf(ip, "/")
                 IN  IF idx /= 0 THEN SubSeq(ip, 1, idx - 1) ELSE ip

\* value of a run of at most three digits
DecVal(s) == CASE Len(s) = 1 -> DigitVal(s[1])
               [] Len(s) = 2 -> 10 * DigitVal(s[1]) + DigitVal(s[2])
               [] Len(s) = 3 -> 100 * DigitVal(s[1]) + 10 * DigitVal(s[2]) + DigitVal(s[3])
               [] OTHER -> 0

NoIP == <<>>

\* one dotted-decimal field: 1..3 digits, no leading zero, at most 255
OctetOK(f) == /\ Len(f) \in 1..3
              /\ \A i \in 1..Len(f) : f[i] \in Digits
              /\ (Len(f) > 1 => f[1] /= "0")
              /\ DecVal(f) <= 255

\* net.ParseIP on dotted-decimal text: the four octets, or NoIP
ParseIP(s) ==
    LET dots == Positions(s, ".")
    IN  IF Cardinality(dots) /= 3 THEN NoIP
        ELSE LET d1 == Least(dots)
                 d2 == Least(dots \ {d1})
                 d3 == Least(dots \ {d1, d2})
                 f1 == SubSeq(s, 1, d1 - 1)
                 f2 == SubSeq(s, d1 + 1, d2 - 1)
                 f3 == SubSeq(s, d2 + 1, d3 - 1)
                 f4 == SubSeq(s, d3 + 1, Len(s))
             IN  IF OctetOK(f1) /\ OctetOK(f2) /\ OctetOK(f3) /\ OctetOK(f4)
                 THEN <<DecVal(f1), DecVal(f2), DecVal(f3), DecVal(f4)>>
                 ELSE NoIP

NoNet == [ok |-> FALSE, ip |-> NoIP, bits |-> 0]

\* the prefix length of a CIDR: digits only (at most three in this model),
\* value 0..32
MaskOK(m) == /\ Len(m) \in 1..3
             /\ \A i \in 1..Len(m) : m[i] \in Digits
             /\ DecVal(m) <= 32

\* net.ParseCIDR: address "/" prefix length
ParseCIDR(s) == LET i == IndexOf(s, "/")
                    ip == ParseIP(SubSeq(s, 1, i - 1))
                    mask == SubSeq(s, i + 1, Len(s))
                IN  IF i = 0 THEN NoNet
                    ELSE IF ip = NoIP \/ ~MaskOK(mask) THEN NoNet
                    ELSE [ok |-> TRUE, ip |-> ip, bits |-> DecVal(mask)]

Pow2(n) == CASE n = 0 -> 1 [] n = 1 -> 2 [] n = 2 -> 4 [] n = 3 -> 8 [] n = 4 -> 16
             [] n = 5 -> 32 [] n = 6 -> 64 [] n = 7 -> 128 [] OTHER -> 256

\* how many leading bits of octet k (1..4) a prefix of that length covers
OctetBits(bits, k) == LET r == bits - 8 * (k - 1)
                      IN  IF r <= 0 THEN 0 ELSE IF r >= 8 THEN 8 ELSE r

\* (*net.IPNet).Contains: the address agrees with the network on the prefix
Contains(ipnet, ip) == \A k \in 1..4 :
                         ip[k] \div Pow2(8 - OctetBits(ipnet.bits, k))
                           = ipnet.ip[k] \div Pow2(8 - OctetBits(ipnet.bits, k))

\* netplan.InSameSubnet
InSameSubnet(ip1CIDR, ip2) ==
    LET ipNet1 == ParseCIDR(ip1CIDR)
        ip2Addr == ParseIP(stripCIDR(ip2))
    IN  IF ~ipNet1.ok THEN FALSE
        ELSE IF ip2Addr = NoIP THEN FALSE
        ELSE Contains(ipNet1, ip2Addr)


(***************************************************************************)
(* State.                                                                  *)
(***************************************************************************)
VARIABLES
    \* ---- the agent process (one trigger request and its background run)
    hostIPs,    \* what getBondIPAddressesWithMask yields on this host
    request,    \* body of the POST /api/run-tests the agent receives
    hpc,        \* position of the agent's handleRunTests
    hresp,      \* what that handler has answered
    rpc,        \* position of the background RunConnectivityTests
    myIPs,      \* the run's masked-address snapshot
    idx,        \* index of the triple the run is at
    cur,        \* matchingLocalIP / matchingInterface of the selected triple
    results,    \* testConnectivity's results slice
    sidx,       \* index in results of the next result to submit
    submitErr,  \* whether the latest SubmitSingleTestResult returned an error
    probes,     \* probes executed so far (arping runs and HTTP GETs)
    wire,       \* submission messages posted to the aggregator so far
    skipped,    \* indices of the triples skipped
    \* ---- the aggregator process and the fleet it triggers
    registry,     \* rows of table servers
    store,        \* rows of table test_results, counted per source_hostname
    apc,          \* position of the aggregator's handleRunTests
    servers,      \* the handler's local servers (result of GetAllServers)
    trig,         \* per host, the TestRequests posted to it by the handler
    gor,          \* per host, position of the handler's trigger goroutine
    resultsChan,  \* buffered channel of triggerResult
    loopI,        \* the collection loop's i
    successCount, \* the handler's successCount
    failedAgents, \* the handler's failedAgents
    aresp,        \* what the handler has answered
    arun,         \* per host, position of the probe run the trigger started
    post,         \* per host, what became of the result the run has posted
    lateStored,   \* history: hosts with a result stored after aresp was sent
    \* ---- the relation resolver of package netplan
    cfg,          \* the Config (its Network maps) the resolver is called on
    bondName,     \* the bond asked about
    returned,     \* which of the three operations have returned
    related,      \* result of GetAllBondRelatedInterfaces
    withMask,     \* result of GetBondIPAddressesWithMask
    bondIPs,      \* result of GetBondIPAddresses
    \* ---- one call of netplan.InSameSubnet
    ssLocal,      \* how the ip1CIDR argument is written
    ssRemote,     \* how the ip2 argument is written
    ssOut,        \* how the call ended
    \* ---- the aggregator's handleServerRegistration
    clock,        \* time.Now() of the latest request handled
    regResp,      \* status the handler has answered the latest request with
    answered,     \* history: the statuses answered so far
    \* ---- one call of netplan.LoadNetplanConfigsFromDir
    dirYaml,      \* the *.yaml files of the directory, as Glob lists them
    dirYml,       \* the *.yml files of the directory
    globOutcome,  \* how the two Glob calls end
    loadPc,       \* position of the call
    loadFiles,    \* the call's files slice
    loadI,        \* files of the slice handled so far
    loadConfigs,  \* the call's configs slice
    loadRet,      \* what the call has returned
    \* ---- one document and the calls of Validate and GetInterfaceNames on it
    doc,          \* the Network of the Config
    valPc,        \* which of the calls have returned
    valErrs,      \* the errors Validate returned
    ifNames,      \* the names GetInterfaceNames returned
    \* ---- table test_results under repeated run-triggers
    table,        \* rows of table test_results, in insertion order
    epoch,        \* history: how many run-triggers have been received
    lastCleared,  \* history: the trigger whose ClearTestResults last succeeded
    tpc,          \* position of the aggregator's handleRunTests
    runs,         \* probe runs in progress, each with the trigger that started it
    ingResp,      \* what handleTestResults answered last
    \* ---- Agent.StartPeriodicRegistration
    regInterval,  \* cfg.Agent.RegisterInterval after the defaults are set
    ppc,          \* position of the goroutine
    attempts,     \* calls of Register made so far
    regFailed,    \* whether the last Register returned an error
    tickReady,    \* a tick is waiting in ticker.C
    stopClosed,   \* stopChan has been closed
    ticksFired    \* ticks delivered so far

agentVars == <<hostIPs, request, hpc, hresp, rpc, myIPs, idx, cur, results,
               sidx, submitErr, probes, wire, skipped>>

aggVars == <<registry, store, apc, servers, trig, gor, resultsChan, loopI,
             successCount, failedAgents, aresp, arun, post, lateStored>>

resVars == <<cfg, bondName, returned, related, withMask, bondIPs>>

subVars == <<ssLocal, ssRemote, ssOut>>

\* the variables of the single-function models
regVars == <<clock, regResp, answered>>

loadVars == <<dirYaml, dirYml, globOutcome, loadPc, loadFiles, loadI,
              loadConfigs, loadRet>>

valVars == <<doc, valPc, valErrs, ifNames>>

stoVars == <<table, epoch, lastCleared, tpc, runs, ingResp>>

perVars == <<regInterval, ppc, attempts, regFailed, tickReady, stopClosed, ticksFired>>

extVars == <<stoVars, perVars>>

auxVars == <<subVars, regVars, loadVars, valVars, extVars>>

vars == <<agentVars, aggVars, resVars, auxVars>>

\* what an action of the agent model leaves alone
nonAgentVars == <<aggVars, resVars, auxVars>>

\* what an action of the aggregator model leaves alone
nonAggVars == <<agentVars, resVars, auxVars>>

\* what a call of the resolver leaves alone
nonResVars == <<agentVars, aggVars, auxVars>>

\* a Config without interfaces
NoConfig == [Bonds |-> <<>>, VLANs |-> <<>>, Bridges |-> <<>>, Tunnels |-> <<>>]

\* no resolver call made
ResolverAtRest ==
    /\ cfg = NoConfig
    /\ bondName = ""
    /\ returned = {}
    /\ related = <<>>
    /\ withMask = <<>>
    /\ bondIPs = <<>>

\* an argument of InSameSubnet not chosen yet
NoArg == [kind |-> "none", addr |-> <<0, 0, 0, 0>>, mask |-> 0]

\* no call of InSameSubnet made
SubnetAtRest ==
    /\ ssLocal = NoArg
    /\ ssRemote = NoArg
    /\ ssOut = "none"

\* no registration request handled
RegistrationAtRest ==
    /\ clock = 0
    /\ regResp = 0
    /\ answered = {}

NoReturn == [configs |-> <<>>, err |-> "none"]

\* an empty directory and no load called
LoaderAtRest ==
    /\ dirYaml = <<>>
    /\ dirYml = <<>>
    /\ globOutcome = "ok"
    /\ loadPc = "call"
    /\ loadFiles = <<>>
    /\ loadI = 0
    /\ loadConfigs = <<>>
    /\ loadRet = NoReturn

\* a Network without interfaces
EmptyNetwork(version, renderer) ==
    [Version |-> version, Renderer |-> renderer, Ethernets |-> <<>>,
     Wifis |-> <<>>, Bridges |-> <<>>, Bonds |-> <<>>, VLANs |-> <<>>,
     Tunnels |-> <<>>]

\* no document validated
ValidateAtRest ==
    /\ doc = EmptyNetwork(2, "")
    /\ valPc = "loaded"
    /\ valErrs = <<>>
    /\ ifNames = <<>>

\* an empty table test_results and no run-trigger received
StoreAtRest ==
    /\ table = <<>>
    /\ epoch = 0
    /\ lastCleared = 0
    /\ tpc = "idle"
    /\ runs = {}
    /\ ingResp = 0

\* the registration goroutine not started
PeriodicAtRest ==
    /\ regInterval = 300
    /\ ppc = "none"
    /\ attempts = 0
    /\ regFailed = FALSE
    /\ tickReady = FALSE
    /\ stopClosed = FALSE
    /\ ticksFired = 0

ExtAtRest == StoreAtRest /\ PeriodicAtRest

AuxAtRest == SubnetAtRest /\ RegistrationAtRest /\ LoaderAtRest /\ ValidateAtRest
             /\ ExtAtRest

Hosts == 1..NHosts

NoResponse == [code |-> 0, body |-> [none |-> TRUE]]

\* a freshly started aggregator: empty tables, no trigger request in progress
AggAtRest ==
    /\ registry = {}
    /\ store = [h \in Hosts |-> 0]
    /\ apc = "idle"
    /\ servers = <<>>
    /\ trig = [h \in Hosts |-> <<>>]
    /\ gor = [h \in Hosts |-> "none"]
    /\ resultsChan = <<>>
    /\ loopI = 0
    /\ successCount = 0
    /\ failedAgents = <<>>
    /\ aresp = NoResponse
    /\ arun = [h \in Hosts |-> "idle"]
    /\ post = [h \in Hosts |-> "none"]
    /\ lateStored = {}

\* a freshly started agent that has received no trigger request
AgentAtRest ==
    /\ hostIPs = <<>>
    /\ request = [ok |-> FALSE, targets |-> <<>>]
    /\ hpc = "idle"
    /\ hresp = "none"
    /\ rpc = "none"
    /\ myIPs = <<>>
    /\ idx = 0
    /\ cur = [ip |-> <<>>, iface |-> ""]
    /\ results = <<>>
    /\ sidx = 0
    /\ submitErr = FALSE
    /\ probes = <<>>
    /\ wire = <<>>
    /\ skipped = {}

(***************************************************************************)
(* The agent: inputs.                                                      *)
(***************************************************************************)
\* a.hostname of the modelled agent
AgentHostname == "h1"

\* addIPWithMask: the entry for one declared address, <<>> when it has no mask
\* (variant: addIPWithMask without the return on a parse error)
MkIPWithMaskUnchecked(addr, interfaceName) ==
    <<[IP |-> stripCIDR(addr), CIDR |-> addr, BondName |-> interfaceName]>>

MkIPWithMask(addr, interfaceName) ==
    IF ~ParseCIDR(addr).ok THEN <<>>
    ELSE <<[IP |-> stripCIDR(addr), CIDR |-> addr, BondName |-> interfaceName]>>

LocalA == MkIPWithMask(CIDRText(192, 168, 1, 10, 24), "bond0")
LocalB == MkIPWithMask(CIDRText(10, 150, 0, 1, 22), "bond0.100")
LocalC == MkIPWithMask(CIDRText(192, 168, 0, 1, 16), "br0")

\* masked-address lists the host's netplan documents can give
LocalSnapshots == {<<>>, LocalA, LocalA \o LocalB, LocalC \o LocalA}

Triple(h, b, ip) == [hostname |-> h, bond |-> b, ip |-> ip]

\* the (targetHostname, bondName, targetIP) triples a trigger may carry
Triples == { Triple("h2", "bond0", IPText(192, 168, 1, 20)),
             Triple("h2", "bond0", IPText(10, 0, 0, 5)),
             Triple("h3", "bond1", IPText(10, 150, 3, 253)) }

SeqsUpTo(S, n) == UNION { [1..k -> S] : k \in 0..n }

\* ranging over the nested maps visits the triples of one hostname together
Grouped(t) == \A i, j, k \in 1..Len(t) :
                 (i < j /\ j < k /\ t[i].hostname = t[k].hostname)
                    => t[j].hostname = t[i].hostname

\* request bodies: undecodable, or a target map in the order the run ranges over it
Requests == {[ok |-> FALSE, targets |-> <<>>]}
            \cup { [ok |-> TRUE, targets |-> t] :
                     t \in {u \in SeqsUpTo(Triples, MaxTargets) : Grouped(u)} }

\* outcome of the HTTP GET: 0 is a transport error, otherwise the status code
HttpOutcomes == {0, 200, 204, 404}

InitAgent ==
    /\ hostIPs \in LocalSnapshots
    /\ request \in Requests
    /\ hpc = "idle"
    /\ hresp = "none"
    /\ rpc = "none"
    /\ myIPs = <<>>
    /\ idx = 0
    /\ cur = [ip |-> <<>>, iface |-> ""]
    /\ results = <<>>
    /\ sidx = 0
    /\ submitErr = FALSE
    /\ probes = <<>>
    /\ wire = <<>>
    /\ skipped = {}
    /\ AggAtRest
    /\ ResolverAtRest
    /\ AuxAtRest

(***************************************************************************)
(* cmd handler handleRunTests (agent side).                                *)
(***************************************************************************)
\* decode the body; on success start the run with a go statement
AgentHandleRunTests ==
    /\ UNCHANGED nonAgentVars
    /\ hpc = "idle"
    /\ IF ~request.ok
       THEN /\ hresp' = "400"
            /\ hpc' = "done"
            /\ rpc' = rpc
       ELSE /\ rpc' = "spawned"
            /\ hpc' = "spawned"
            /\ hresp' = hresp
    /\ UNCHANGED <<hostIPs, request, myIPs, idx, cur, results, sidx, submitErr,
                   probes, wire, skipped>>

\* a handler that calls RunConnectivityTests itself would answer only after it
AgentRespondAfterRun ==
    /\ UNCHANGED nonAgentVars
    /\ hpc = "spawned"
    /\ rpc = "done"
    /\ hresp' = "accepted"
    /\ hpc' = "done"
    /\ UNCHANGED <<hostIPs, request, rpc, myIPs, idx, cur, results, sidx,
                   submitErr, probes, wire, skipped>>

\* "Return immediately": encode {status: accepted}
AgentRespond ==
    /\ UNCHANGED nonAgentVars
    /\ hpc = "spawned"
    /\ hresp' = "accepted"
    /\ hpc' = "done"
    /\ UNCHANGED <<hostIPs, request, rpc, myIPs, idx, cur, results, sidx,
                   submitErr, probes, wire, skipped>>

(***************************************************************************)
(* Agent.RunConnectivityTests and Agent.testConnectivity.                  *)
(***************************************************************************)
\* a selection loop that looks at the first local address only
FirstMatchHeadOnly(ips, targetIP) ==
    IF Len(ips) > 0 /\ InSameSubnet(ips[1].CIDR, targetIP) THEN 1 ELSE 0

\* a selection that prefers the matching entry with the longest prefix
FirstMatchLongestPrefix(ips, targetIP) ==
    IF \E k \in 1..Len(ips) : InSameSubnet(ips[k].CIDR, targetIP)
    THEN CHOOSE k \in 1..Len(ips) :
            /\ InSameSubnet(ips[k].CIDR, targetIP)
            /\ \A j \in 1..Len(ips) :
                  InSameSubnet(ips[j].CIDR, targetIP) =>
                     \/ ParseCIDR(ips[j].CIDR).bits < ParseCIDR(ips[k].CIDR).bits
                     \/ (ParseCIDR(ips[j].CIDR).bits = ParseCIDR(ips[k].CIDR).bits
                           /\ k <= j)
    ELSE 0

\* the inner loop over myIPs: index of the first matching entry, 0 when none
FirstMatch(ips, targetIP) ==
    IF \E k \in 1..Len(ips) : InSameSubnet(ips[k].CIDR, targetIP)
    THEN CHOOSE k \in 1..Len(ips) :
            /\ InSameSubnet(ips[k].CIDR, targetIP)
            /\ \A j \in 1..(k - 1) : ~InSameSubnet(ips[j].CIDR, targetIP)
    ELSE 0

\* the run takes its snapshot of the local masked addresses
RunStart ==
    /\ UNCHANGED nonAgentVars
    /\ rpc = "spawned"
    /\ myIPs' = hostIPs
    /\ idx' = 1
    /\ rpc' = "select"
    /\ UNCHANGED <<hostIPs, request, hpc, hresp, cur, results, sidx, submitErr,
                   probes, wire, skipped>>

\* what the documents give after they have been rewritten: another list
Rewritten(ips) == IF ips = LocalA THEN LocalC \o LocalA ELSE LocalA

\* the documents under /etc/netplan are rewritten while a run is in progress:
\* getBondIPAddressesWithMask would now yield another list (nothing reads
\* hostIPs after RunStart, so the rewrite is placed between two triples)
NetplanChanges ==
    /\ UNCHANGED nonAgentVars
    /\ rpc = "select"
    /\ hostIPs = myIPs
    /\ hostIPs' = Rewritten(hostIPs)
    /\ UNCHANGED <<request, hpc, hresp, rpc, myIPs, idx, cur, results, sidx,
                   submitErr, probes, wire, skipped>>

\* one turn of the loop over the triples: skip, select, or finish
RunSelect ==
    /\ UNCHANGED nonAgentVars
    /\ rpc = "select"
    /\ IF idx > Len(request.targets)
       THEN /\ rpc' = "done"
            /\ UNCHANGED <<idx, cur, results, skipped>>
       ELSE LET m == FirstMatch(myIPs, request.targets[idx].ip)
            IN  IF m = 0
                THEN /\ skipped' = skipped \cup {idx}
                     /\ idx' = idx + 1
                     /\ UNCHANGED <<rpc, cur, results>>
                ELSE /\ cur' = [ip |-> myIPs[m].IP, iface |-> myIPs[m].BondName]
                     /\ results' = <<>>
                     /\ rpc' = "arp"
                     /\ UNCHANGED <<idx, skipped>>
    /\ UNCHANGED <<hostIPs, request, hpc, hresp, myIPs, sidx, submitErr, probes, wire>>

StatusText(code) == CASE code = 204 -> "HTTP status 204"
                      [] code = 404 -> "HTTP status 404"
                      [] OTHER -> "HTTP status"

\* the arp TestResult, arpErr being whether arping exited with an error
ArpResult(t, sourceIP, arpErr) ==
    [TargetHostname |-> t.hostname, TargetIP |-> t.ip, SourceIP |-> sourceIP,
     BondName |-> t.bond, TestType |-> "arp", Success |-> ~arpErr,
     ErrorMessage |-> IF arpErr THEN "ARP ping failed" ELSE ""]

\* the http TestResult for an outcome of the GET
HttpResult(t, sourceIP, out) ==
    [TargetHostname |-> t.hostname, TargetIP |-> t.ip, SourceIP |-> sourceIP,
     BondName |-> t.bond, TestType |-> "http", Success |-> (out = 200),
     ErrorMessage |-> IF out = 0 THEN "transport error"
                      ELSE IF out = 200 THEN "" ELSE StatusText(out)]

ProbeRec(kind) == [kind |-> kind, idx |-> idx, iface |-> cur.iface,
                   ip |-> request.targets[idx].ip]

\* testConnectivity, test 1: arping from the matching interface
ArpProbe ==
    /\ UNCHANGED nonAgentVars
    /\ rpc = "arp"
    /\ \E arpErr \in BOOLEAN :
         results' = Append(results, ArpResult(request.targets[idx], cur.ip, arpErr))
    /\ probes' = Append(probes, ProbeRec("arp"))
    /\ rpc' = "http"
    /\ UNCHANGED <<hostIPs, request, hpc, hresp, myIPs, idx, cur, sidx, submitErr,
                   wire, skipped>>

\* a testConnectivity that returns early when the arping failed
HttpProbeSkippedOnArpFailure ==
    /\ UNCHANGED nonAgentVars
    /\ rpc = "http"
    /\ IF results[1].Success
       THEN /\ \E out \in HttpOutcomes :
                 results' = Append(results, HttpResult(request.targets[idx], cur.ip, out))
            /\ probes' = Append(probes, ProbeRec("http"))
       ELSE UNCHANGED <<results, probes>>
    /\ sidx' = 1
    /\ rpc' = "submit"
    /\ UNCHANGED <<hostIPs, request, hpc, hresp, myIPs, idx, cur, submitErr,
                   wire, skipped>>

\* testConnectivity, test 2: the HTTP GET, whatever the arping gave; the two
\* results are then returned to the loop
HttpProbeOn(out) ==
    /\ UNCHANGED nonAgentVars
    /\ rpc = "http"
    /\ results' = Append(results, HttpResult(request.targets[idx], cur.ip, out))
    /\ probes' = Append(probes, ProbeRec("http"))
    /\ sidx' = 1
    /\ rpc' = "submit"
    /\ UNCHANGED <<hostIPs, request, hpc, hresp, myIPs, idx, cur, submitErr,
                   wire, skipped>>

HttpProbe == \E out \in HttpOutcomes : HttpProbeOn(out)

\* SubmitTestResults' payload for a slice of results
Payload(rs) == [source_hostname |-> AgentHostname, results |-> rs]

\* a loop that gives up the run when a submission returns an error
SubmitResultStopsOnError ==
    /\ UNCHANGED nonAgentVars
    /\ rpc = "submit"
    /\ wire' = Append(wire, Payload(<<results[sidx]>>))
    /\ submitErr' \in BOOLEAN
    /\ IF submitErr'
       THEN /\ rpc' = "done"
            /\ UNCHANGED <<idx, sidx>>
       ELSE IF sidx = Len(results)
       THEN /\ idx' = idx + 1
            /\ rpc' = "select"
            /\ sidx' = sidx
       ELSE /\ sidx' = sidx + 1
            /\ UNCHANGED <<idx, rpc>>
    /\ UNCHANGED <<hostIPs, request, hpc, hresp, myIPs, cur, results, probes, skipped>>

\* SubmitSingleTestResult for results[sidx]: one POST, which succeeds or returns
\* an error (testCount, which is only printed, is left out)
SubmitResult ==
    /\ UNCHANGED nonAgentVars
    /\ rpc = "submit"
    /\ wire' = Append(wire, Payload(<<results[sidx]>>))
    /\ submitErr' \in BOOLEAN
    /\ IF sidx = Len(results)
       THEN /\ idx' = idx + 1
            /\ rpc' = "select"
            /\ sidx' = sidx
       ELSE /\ sidx' = sidx + 1
            /\ UNCHANGED <<idx, rpc>>
    /\ UNCHANGED <<hostIPs, request, hpc, hresp, myIPs, cur, results, probes, skipped>>

NextAgent ==
    \/ AgentHandleRunTests
    \/ AgentRespond
    \/ RunStart
    \/ NetplanChanges
    \/ RunSelect
    \/ ArpProbe
    \/ HttpProbe
    \/ SubmitResult

SpecAgent == InitAgent /\ [][NextAgent]_vars


(***************************************************************************)
(* Claims about the agent's probe run (checked under SpecAgent).           *)
(***************************************************************************)
RunStarted == rpc \notin {"none", "spawned"}

\* some masked local address of the snapshot is in the same subnet as ip
SomeInSameSubnet(ip) == \E k \in 1..Len(myIPs) : InSameSubnet(myIPs[k].CIDR, ip)

Probed(i, kind) == \E p \in 1..Len(probes) : probes[p].idx = i /\ probes[p].kind = kind

\* C1: a triple the run has dealt with was probed (link and application
\* probe) if and only if some masked local address is in the same subnet as
\* its IP; a triple without a matching local address is skipped and no
\* probe and no submission ever names its IP.
C1_ProbedIffSameSubnet ==
    /\ \A i \in 1..Len(request.targets) :
          IF RunStarted /\ i <= idx
          THEN LET ip == request.targets[i].ip
                   same == SomeInSameSubnet(ip)
               IN  /\ i < idx =>
                       /\ Probed(i, "arp") <=> same
                       /\ Probed(i, "http") <=> same
                       /\ (i \in skipped) <=> ~same
                   /\ ~same =>
                       /\ \A p \in 1..Len(probes) : probes[p].ip /= ip
                       /\ \A m \in 1..Len(wire) :
                            \A r \in 1..Len(wire[m].results) :
                               wire[m].results[r].TargetIP /= ip
          ELSE /\ i \notin skipped
               /\ \A p \in 1..Len(probes) : probes[p].idx /= i
    \* only triples the run has reached are probed or reported
    /\ \A p \in 1..Len(probes) : RunStarted /\ probes[p].idx <= idx
    /\ \A m \in 1..Len(wire) :
          \A r \in 1..Len(wire[m].results) :
             \E i \in 1..Len(request.targets) :
                /\ RunStarted /\ i <= idx
                /\ wire[m].results[r].TargetIP = request.targets[i].ip
                /\ wire[m].results[r].TargetHostname = request.targets[i].hostname
                /\ wire[m].results[r].BondName = request.targets[i].bond

\* a finished run that probed one triple and skipped another
C1_Witness ==
    /\ rpc = "done"
    /\ \E i, j \in 1..Len(request.targets) :
         /\ Probed(i, "arp") /\ Probed(i, "http")
         /\ j \in skipped
         /\ Len(myIPs) > 0

\* C2: when testConnectivity returns, its slice holds exactly two results
\* for the selected target, the first "arp" and the second "http", whatever
\* the two probes gave; a failed probe is a result with success=false and an
\* error message, and both probes have run.
C2_TwoResultsPerTarget ==
    rpc = "submit" =>
        /\ Len(results) = 2
        /\ results[1].TestType = "arp"
        /\ results[2].TestType = "http"
        /\ \A r \in 1..Len(results) :
             /\ results[r].TargetIP = request.targets[idx].ip
             /\ results[r].TargetHostname = request.targets[idx].hostname
             /\ (~results[r].Success) <=> (results[r].ErrorMessage /= "")
        /\ Probed(idx, "arp") /\ Probed(idx, "http")

\* the link probe failed and the application probe still ran and succeeded
C2_Witness ==
    /\ rpc = "submit"
    /\ Len(results) = 2
    /\ ~results[1].Success
    /\ results[2].Success

\* C3 (as claimed): a completed result never waits for another probe: while
\* the application probe is still to run no completed result is unsubmitted,
\* and every submission message carries exactly one result.
C3_SubmittedWhenOwnProbeCompletes ==
    /\ rpc = "http" =>
         \A r \in 1..Len(results) :
            \E m \in 1..Len(wire) : wire[m].results = <<results[r]>>
    /\ \A m \in 1..Len(wire) : Len(wire[m].results) = 1

\* C21: the application probe that ends with outcome out appends a result
\* with success=true exactly when out is a 2xx status; otherwise the result
\* has success=false and names the status or the transport error.
C21_SuccessIff2xx ==
    [][\A out \in HttpOutcomes :
          HttpProbeOn(out) =>
              LET r == results'[Len(results')]
              IN  /\ r.TestType = "http"
                  /\ r.Success <=> (out \in 200..299)
                  /\ r.Success => r.ErrorMessage = ""
                  /\ ~r.Success =>
                        r.ErrorMessage = (IF out = 0 THEN "transport error"
                                          ELSE StatusText(out))]_vars

\* the entry of the snapshot that the loop selects for the current triple:
\* matching, and no entry before it matches
IsFirstMatching(k) ==
    /\ k \in 1..Len(myIPs)
    /\ InSameSubnet(myIPs[k].CIDR, request.targets[idx].ip)
    /\ \A j \in 1..(k - 1) : ~InSameSubnet(myIPs[j].CIDR, request.targets[idx].ip)

\* C22: while a triple is being probed and reported, the source IP and the
\* probe interface are those of the first entry of the snapshot that is in
\* the same subnet as the target (not of a later entry with a longer prefix),
\* every result carries that source IP, and once the run has taken its
\* snapshot the snapshot never changes, whatever happens to the host's
\* netplan documents.
C22_FirstMatchFromSnapshot ==
    /\ [](rpc \in {"arp", "http", "submit"} =>
            \E k \in 1..Len(myIPs) :
               /\ IsFirstMatching(k)
               /\ cur = [ip |-> myIPs[k].IP, iface |-> myIPs[k].BondName]
               /\ \A r \in 1..Len(results) : results[r].SourceIP = myIPs[k].IP
               /\ rpc /= "arp" => probes[Len(probes)].iface = myIPs[k].BondName)
    /\ [][RunStarted => myIPs' = myIPs]_vars

\* two entries match the target, the first has the shorter prefix and is the
\* one in use, and the host's documents changed after the snapshot was taken
C22_Witness ==
    /\ rpc = "submit"
    /\ myIPs = LocalC \o LocalA
    /\ hostIPs /= myIPs
    /\ InSameSubnet(myIPs[1].CIDR, request.targets[idx].ip)
    /\ InSameSubnet(myIPs[2].CIDR, request.targets[idx].ip)
    /\ ParseCIDR(myIPs[1].CIDR).bits < ParseCIDR(myIPs[2].CIDR).bits
    /\ cur.iface = "br0"
    /\ Len(results) = 2

\* the triples of the request that the loop has not skipped
Selected == {i \in 1..Len(request.targets) : i \notin skipped}

\* C23: every result is posted once, in a message of its own, whether or not
\* the post fails: a post is followed by the next result of the same target
\* or by the next triple, never by a second post of the same result and never
\* by the end of the run; a finished run has probed every selected triple and
\* has posted exactly two messages for each of them.
C23_FailedSubmissionNotRetried ==
    /\ [][(rpc = "submit" /\ wire' /= wire) =>
            /\ wire' = Append(wire, Payload(<<results[sidx]>>))
            /\ IF sidx < Len(results)
               THEN rpc' = "submit" /\ sidx' = sidx + 1 /\ idx' = idx
               ELSE rpc' = "select" /\ idx' = idx + 1]_vars
    /\ [][wire' /= wire => rpc = "submit"]_vars
    /\ [](RunStarted =>
            Len(wire) = 2 * Cardinality({i \in Selected : i < idx})
                          + (IF rpc = "submit" THEN sidx - 1 ELSE 0))
    /\ [](rpc = "done" =>
            /\ \A i \in Selected : Probed(i, "arp") /\ Probed(i, "http")
            /\ Len(wire) = 2 * Cardinality(Selected))

\* the last post of the first triple failed and the second triple is being
\* probed all the same
C23_Witness ==
    /\ rpc = "arp"
    /\ idx = 2
    /\ submitErr
    /\ Len(wire) = 2

\* C4: once the run is started with the go statement the handler can answer
\* at once, whatever the run's position; a decodable request is answered
\* "accepted" and only a request whose run was started is.
C4_AcceptedWithoutWaiting ==
    /\ hpc = "spawned" => ENABLED AgentRespond
    /\ hresp = "accepted" => (request.ok /\ rpc /= "none")
    /\ (hpc = "done" /\ request.ok) => hresp = "accepted"
    /\ (hpc = "done" /\ ~request.ok) => (hresp = "400" /\ rpc = "none")

\* the answer is out while the run has not taken its first step
C4_Witness == hresp = "accepted" /\ rpc = "spawned" /\ Len(request.targets) > 0


(***************************************************************************)
(* The fleet: what each host registers, and the registry rows.             *)
(***************************************************************************)
HostIP(h) == IPText(10, 0, 0, h)

\* the host that answers at an address
HostAt(ip) == CHOOSE h \in Hosts : HostIP(h) = ip

\* a nil map[string][]string (what a payload without "bonds" decodes to)
NilBonds == [nil |-> TRUE, links |-> <<>>]

\* Bonds of the RegistrationPayload host h sends
BondsOf(h) == IF h = 2 THEN NilBonds
              ELSE [nil |-> FALSE, links |-> [b \in {"bond0"} |-> <<HostIP(h)>>]]

\* json.Marshal of a map[string][]string: a nil map is written as null
jsonMarshal(bonds) == IF bonds.nil THEN [text |-> "null", object |-> <<>>]
                      ELSE [text |-> "object", object |-> bonds.links]

\* json.Unmarshal into a map[string][]string: null leaves the map nil
jsonUnmarshal(j) ==
    CASE j.text = "null" -> [err |-> FALSE, bonds |-> NilBonds]
      [] j.text = "object" -> [err |-> FALSE,
                               bonds |-> [nil |-> FALSE, links |-> j.object]]
      [] OTHER -> [err |-> TRUE, bonds |-> NilBonds]

\* the RegistrationPayload host h sends at start-up
RegistrationOf(h) ==
    [Hostname |-> h, IPAddress |-> HostIP(h), SystemInfo |-> "snapshot",
     Bonds |-> BondsOf(h)]

\* the row the INSERT of RegisterServer writes at time now
RowOf(p, now) ==
    [hostname |-> p.Hostname, ip_address |-> p.IPAddress,
     system_info |-> p.SystemInfo, bonds |-> jsonMarshal(p.Bonds),
     registered_at |-> now, last_seen |-> now]

\* (variant: INSERT OR REPLACE, the conflicting row replaced as a whole)
InsertOrReplace(rows, p, now) ==
    {r \in rows : r.hostname # p.Hostname} \cup {RowOf(p, now)}

\* INSERT ... ON CONFLICT(hostname) DO UPDATE SET ip_address, system_info,
\* bonds, last_seen
Upsert(rows, p, now) ==
    IF \E r \in rows : r.hostname = p.Hostname
    THEN {IF r.hostname = p.Hostname
          THEN [r EXCEPT !.ip_address = p.IPAddress,
                         !.system_info = p.SystemInfo,
                         !.bonds = jsonMarshal(p.Bonds),
                         !.last_seen = now]
          ELSE r : r \in rows}
    ELSE rows \cup {RowOf(p, now)}

\* the row RegisterServer writes for host h (its first registration)
RegisterServer(h) == RowOf(RegistrationOf(h), 1)

\* SELECT ... FROM servers ORDER BY hostname
GetAllServers(rows) ==
    [k \in 1..Cardinality(rows) |->
        CHOOSE r \in rows :
            Cardinality({q \in rows : q.hostname < r.hostname}) = k - 1]

(***************************************************************************)
(* Aggregator.handleRunTests.                                              *)
(***************************************************************************)
\* allTargets: one entry per server whose bonds column unmarshals
AllTargets(srv) ==
    LET good == {k \in 1..Len(srv) : ~jsonUnmarshal(srv[k].bonds).err}
        at(x) == CHOOSE k \in good : srv[k].hostname = x
    IN  [x \in {srv[k].hostname : k \in good} |->
            [Links |-> jsonUnmarshal(srv[at(x)].bonds).bonds]]

\* a target map built without the hostname test
TargetsForAll(all, hostname) == all

\* "Build targets for this agent (exclude itself)"
TargetsFor(all, hostname) == [x \in (DOMAIN all) \ {hostname} |-> all[x]]

\* the response map of the handler's last section
TriggerResponse(count, n, failed) ==
    IF Len(failed) > 0
    THEN [code |-> 200,
          body |-> [status |-> "success",
                    message |-> <<"triggered", count, n, "failed", Len(failed)>>,
                    count |-> count, total |-> n, failed_agents |-> failed]]
    ELSE [code |-> 200,
          body |-> [status |-> "success",
                    message |-> <<"sent", count, n>>,
                    count |-> count, total |-> n]]

\* a handler that answers 500 and returns when ClearTestResults fails
AggClearAbortsOnFailure ==
    /\ apc = "idle"
    /\ \E ok \in BOOLEAN :
         IF ok THEN /\ store' = [h \in Hosts |-> 0]
                    /\ apc' = "cleared"
                    /\ aresp' = aresp
         ELSE /\ store' = store
              /\ apc' = "done"
              /\ aresp' = [code |-> 500, body |-> [error |-> "Failed to clear"]]
    /\ UNCHANGED <<registry, servers, trig, gor, resultsChan, loopI,
                   successCount, failedAgents, arun, post, lateStored>>
    /\ UNCHANGED nonAggVars

\* ClearTestResults; a failure is logged and the handler goes on
AggClear ==
    /\ apc = "idle"
    /\ \E ok \in BOOLEAN : store' = IF ok THEN [h \in Hosts |-> 0] ELSE store
    /\ apc' = "cleared"
    /\ UNCHANGED <<registry, servers, trig, gor, resultsChan, loopI,
                   successCount, failedAgents, aresp, arun, post, lateStored>>
    /\ UNCHANGED nonAggVars

\* GetAllServers, the two early returns, allTargets and the dispatch loop
AggDispatch ==
    /\ apc = "cleared"
    /\ \E readOk \in BOOLEAN :
        IF ~readOk
        THEN /\ aresp' = [code |-> 500, body |-> [error |-> "Failed to get servers"]]
             /\ apc' = "done"
             /\ UNCHANGED <<servers, trig, gor>>
        ELSE IF registry = {}
        THEN /\ aresp' = [code |-> 200,
                          body |-> [status |-> "success",
                                    message |-> "No servers registered to test",
                                    count |-> 0]]
             /\ apc' = "done"
             /\ UNCHANGED <<servers, trig, gor>>
        ELSE LET srv == GetAllServers(registry)
                 all == AllTargets(srv)
                 names == {srv[k].hostname : k \in 1..Len(srv)}
                 called == {HostAt(srv[k].ip_address) : k \in 1..Len(srv)}
                 row(h) == CHOOSE k \in 1..Len(srv) : HostAt(srv[k].ip_address) = h
             IN  /\ servers' = srv
                 /\ trig' = [h \in Hosts |->
                               IF h \in called
                               THEN <<[Targets |-> TargetsFor(all, srv[row(h)].hostname)]>>
                               ELSE <<>>]
                 /\ gor' = [h \in Hosts |-> IF h \in called THEN "posting" ELSE "none"]
                 /\ apc' = "collect"
                 /\ aresp' = aresp
    /\ UNCHANGED <<registry, store, resultsChan, loopI, successCount,
                   failedAgents, arun, post, lateStored>>
    /\ UNCHANGED nonAggVars

\* the agent at host h takes the trigger: its handler starts the run with a go
\* statement and answers "accepted" (the agent model above, in one step)
AgentAccept(h) ==
    /\ gor[h] = "posting"
    /\ arun[h] = "idle"
    /\ arun' = [arun EXCEPT ![h] = "running"]
    /\ UNCHANGED <<registry, store, apc, servers, trig, gor, resultsChan, loopI,
                   successCount, failedAgents, aresp, post, lateStored>>
    /\ UNCHANGED nonAggVars

\* a send on a channel made without capacity: it completes only while the
\* handler is in its select
GorFinishUnbuffered(h) ==
    /\ gor[h] = "posting"
    /\ apc = "collect"
    /\ resultsChan = <<>>
    /\ \E out \in IF arun[h] = "idle" THEN {"post error", "status 404"}
                  ELSE {"", "post error"} :
          resultsChan' = Append(resultsChan,
                                [hostname |-> h, ipAddr |-> HostIP(h),
                                 success |-> (out = ""), err |-> out])
    /\ gor' = [gor EXCEPT ![h] = "exited"]
    /\ UNCHANGED <<registry, store, apc, servers, trig, loopI, successCount,
                   failedAgents, aresp, arun, post, lateStored>>
    /\ UNCHANGED nonAggVars

\* http.Post returns in the goroutine for host h, which sends its triggerResult
\* and exits; the send needs room in the buffered channel
GorFinish(h) ==
    /\ gor[h] = "posting"
    /\ Len(resultsChan) < Len(servers)
    /\ \E out \in IF arun[h] = "idle" THEN {"post error", "status 404"}
                  ELSE {"", "post error"} :
          resultsChan' = Append(resultsChan,
                                [hostname |-> h, ipAddr |-> HostIP(h),
                                 success |-> (out = ""), err |-> out])
    /\ gor' = [gor EXCEPT ![h] = "exited"]
    /\ UNCHANGED <<registry, store, apc, servers, trig, loopI, successCount,
                   failedAgents, aresp, arun, post, lateStored>>
    /\ UNCHANGED nonAggVars

\* select, case result := <-resultsChan; after the last turn the loop ends
\* and the response is written
AggRecv ==
    /\ apc = "collect"
    /\ resultsChan # <<>>
    /\ LET result == Head(resultsChan)
           count == IF result.success THEN successCount + 1 ELSE successCount
           failed == IF result.success THEN failedAgents
                     ELSE Append(failedAgents,
                                 [hostname |-> result.hostname,
                                  ipAddr |-> result.ipAddr,
                                  text |-> result.err, remaining |-> 0])
       IN  /\ successCount' = count
           /\ failedAgents' = failed
           /\ resultsChan' = Tail(resultsChan)
           /\ loopI' = loopI + 1
           /\ IF loopI + 1 < Len(servers)
              THEN UNCHANGED <<apc, aresp>>
              ELSE /\ apc' = "done"
                   /\ aresp' = TriggerResponse(count, Len(servers), failed)
    /\ UNCHANGED <<registry, store, servers, trig, gor, arun, post, lateStored>>
    /\ UNCHANGED nonAggVars

\* a collection loop without the timer
AggWaitForAll ==
    /\ apc = "collect"
    /\ loopI = Len(servers)
    /\ apc' = "done"
    /\ aresp' = TriggerResponse(successCount, Len(servers), failedAgents)
    /\ UNCHANGED <<registry, store, servers, trig, gor, resultsChan, loopI,
                   successCount, failedAgents, arun, post, lateStored>>
    /\ UNCHANGED nonAggVars

\* a window that, on closing, abandons the outstanding calls and stops the runs
AggTimeoutCancels ==
    /\ apc = "collect"
    /\ LET remaining == Len(servers) - loopI
           failed == IF remaining > 0
                     THEN Append(failedAgents,
                                 [hostname |-> 0, ipAddr |-> <<>>,
                                  text |-> "agents timed out",
                                  remaining |-> remaining])
                     ELSE failedAgents
       IN  /\ failedAgents' = failed
           /\ aresp' = TriggerResponse(successCount, Len(servers), failed)
    /\ apc' = "done"
    /\ gor' = [h \in Hosts |-> IF gor[h] = "posting" THEN "exited" ELSE gor[h]]
    /\ arun' = [h \in Hosts |-> IF arun[h] = "running" THEN "done" ELSE arun[h]]
    /\ UNCHANGED <<registry, store, servers, trig, resultsChan, loopI,
                   successCount, post, lateStored>>
    /\ UNCHANGED nonAggVars

\* select, case <-timeout: one entry for all the remaining agents, goto done
AggTimeout ==
    /\ apc = "collect"
    /\ LET remaining == Len(servers) - loopI
           failed == IF remaining > 0
                     THEN Append(failedAgents,
                                 [hostname |-> 0, ipAddr |-> <<>>,
                                  text |-> "agents timed out",
                                  remaining |-> remaining])
                     ELSE failedAgents
       IN  /\ failedAgents' = failed
           /\ aresp' = TriggerResponse(successCount, Len(servers), failed)
    /\ apc' = "done"
    /\ UNCHANGED <<registry, store, servers, trig, gor, resultsChan, loopI,
                   successCount, arun, post, lateStored>>
    /\ UNCHANGED nonAggVars

(***************************************************************************)
(* The triggered runs and Aggregator.handleTestResults.                    *)
(***************************************************************************)
\* the run on host h (the agent model above, seen from the aggregator; its
\* posts stand as one) posts a result: the post is lost on the way, or
\* handleTestResults answers "success" after SaveTestResult stored the row or
\* failed, which is logged only
PostResult(h, out) ==
    /\ arun[h] = "running"
    /\ post[h] = "none"
    /\ post' = [post EXCEPT ![h] = out]
    /\ store' = IF out = "saved" THEN [store EXCEPT ![h] = @ + 1] ELSE store
    /\ lateStored' = IF out = "saved" /\ apc = "done"
                     THEN lateStored \cup {h} ELSE lateStored
    /\ UNCHANGED <<registry, apc, servers, trig, gor, resultsChan, loopI,
                   successCount, failedAgents, aresp, arun>>
    /\ UNCHANGED nonAggVars

RunSubmit(h) == \E out \in {"lost", "saved", "save failed"} : PostResult(h, out)

\* RunConnectivityTests returns on host h (with nothing posted when no target
\* address was in a local subnet)
RunFinish(h) ==
    /\ arun[h] = "running"
    /\ arun' = [arun EXCEPT ![h] = "done"]
    /\ UNCHANGED <<registry, store, apc, servers, trig, gor, resultsChan, loopI,
                   successCount, failedAgents, aresp, post, lateStored>>
    /\ UNCHANGED nonAggVars

(***************************************************************************)
(* The aggregator with its fleet.                                          *)
(***************************************************************************)
Init ==
    /\ AgentAtRest
    /\ ResolverAtRest
    /\ AuxAtRest
    /\ registry \in {{RegisterServer(h) : h \in S} : S \in SUBSET Hosts}
    /\ store \in {[h \in Hosts |-> 0], [h \in Hosts |-> 1]}
    /\ apc = "idle"
    /\ servers = <<>>
    /\ trig = [h \in Hosts |-> <<>>]
    /\ gor = [h \in Hosts |-> "none"]
    /\ resultsChan = <<>>
    /\ loopI = 0
    /\ successCount = 0
    /\ failedAgents = <<>>
    /\ aresp = NoResponse
    /\ arun = [h \in Hosts |-> "idle"]
    /\ post = [h \in Hosts |-> "none"]
    /\ lateStored = {}

Next ==
    \/ AggClear
    \/ AggDispatch
    \/ \E h \in Hosts : AgentAccept(h)
    \/ \E h \in Hosts : GorFinish(h)
    \/ AggRecv
    \/ AggTimeout
    \/ \E h \in Hosts : RunSubmit(h)
    \/ \E h \in Hosts : RunFinish(h)

Spec == Init /\ [][Next]_vars

\* the handler's own steps are taken, the timer fires, and a started run goes
\* on (every probe and post has a transport timeout); nothing makes an agent
\* take a trigger or an outbound http.Post return
FairSpec ==
    /\ Spec
    /\ WF_vars(AggClear)
    /\ WF_vars(AggDispatch)
    /\ WF_vars(AggRecv)
    /\ WF_vars(AggTimeout)
    /\ \A h \in Hosts : WF_vars(RunSubmit(h)) /\ WF_vars(RunFinish(h))

(***************************************************************************)
(* Claims about the run-trigger fan-out (checked under Spec and FairSpec). *)
(***************************************************************************)
Registered == {r.hostname : r \in registry}

FailedAgentsOf(resp) == IF "failed_agents" \in DOMAIN resp.body
                        THEN resp.body.failed_agents ELSE <<>>

\* the hosts whose trigger call has been made and has not been collected
Uncollected == {h \in Hosts : gor[h] = "posting"}
                \cup {resultsChan[k].hostname : k \in 1..Len(resultsChan)}

\* C5: with n >= 1 registered agents, once the handler has dispatched, each
\* registered agent has been sent exactly one trigger call, no other host has
\* been sent any, and the targets sent to agent h are the bond-to-IP mappings
\* of all the other registered hostnames, with no entry for h.
C5_OneTriggerPerAgent ==
    /\ (apc \in {"idle", "cleared"} \/ registry = {} \/ servers = <<>>) =>
            \A h \in Hosts : trig[h] = <<>>
    /\ (apc \in {"collect", "done"} /\ servers # <<>>) =>
            \A h \in Hosts :
                IF h \in Registered
                THEN /\ Len(trig[h]) = 1
                     /\ DOMAIN trig[h][1].Targets = Registered \ {h}
                     /\ \A x \in Registered \ {h} :
                            trig[h][1].Targets[x].Links = BondsOf(x)
                ELSE trig[h] = <<>>

C5_Witness ==
    /\ apc = "collect"
    /\ Registered = Hosts
    /\ \A h \in Hosts : Len(trig[h]) = 1 /\ DOMAIN trig[h][1].Targets = Hosts \ {h}

\* C6: the run-trigger handler eventually sends its response, whichever
\* agents never acknowledge; while it collects, the timer branch is available.
C6_AlwaysResponds ==
    /\ [](apc = "collect" => ENABLED AggTimeout)
    /\ <>(apc = "done" /\ aresp.code # 0)

C6_Witness ==
    /\ apc = "done"
    /\ aresp.code = 200
    /\ \E h \in Hosts : gor[h] = "posting" /\ arun[h] = "idle"

\* C7: the response to a trigger with n >= 1 registered agents has total = n
\* and one failed_agents entry per agent that failed or timed out, so that
\* count + length(failed_agents) = total.
C7_CountPlusFailedIsTotal ==
    (apc = "done" /\ servers # <<>>) =>
        /\ aresp.body.total = Len(servers)
        /\ aresp.body.count + Len(FailedAgentsOf(aresp)) = aresp.body.total

\* C8: every response to a run-trigger request is a success response that
\* reports count and total.
C8_ResponseReportsCountAndTotal ==
    aresp.code # 0 =>
        /\ aresp.code = 200
        /\ {"count", "total"} \subseteq DOMAIN aresp.body

\* a step in which the window closes (the loop's timeout branch)
WindowCloses == apc = "collect" /\ apc' = "done" /\ loopI' = loopI

\* a step in which the post of host h reaches handleTestResults
Ingested(h) == post[h] = "none" /\ post'[h] \in {"saved", "save failed"}

\* C9 as stated: every result that reaches the aggregator is stored.
C9_EveryResultStored ==
    [][\A h \in Hosts : Ingested(h) => store'[h] = store[h] + 1]_vars

\* C9, amended: closing the window changes nothing of the outstanding calls,
\* the runs or the store; a run that was started finishes; at every position
\* of the handler a posted result can be taken and stored, and a result that
\* reaches handleTestResults is stored exactly when SaveTestResult succeeds.
C9_SoftDeadline ==
    /\ [][WindowCloses => UNCHANGED <<gor, arun, post, store, trig, resultsChan>>]_vars
    /\ [](\A h \in Hosts : (arun[h] = "running" /\ post[h] = "none") =>
                                ENABLED PostResult(h, "saved"))
    /\ [][\A h \in Hosts : Ingested(h) =>
             /\ store'[h] = store[h] + (IF post'[h] = "saved" THEN 1 ELSE 0)
             /\ \A g \in Hosts \ {h} : store'[g] = store[g]]_vars
    /\ \A h \in Hosts : (arun[h] = "running") ~> (arun[h] = "done")

C9_Witness ==
    /\ apc = "done"
    /\ \E h \in Hosts :
          /\ h \in lateStored
          /\ h \in Uncollected
          /\ arun[h] = "done"
          /\ post[h] = "saved"
          /\ \E k \in 1..Len(FailedAgentsOf(aresp)) :
                FailedAgentsOf(aresp)[k].text = "agents timed out"

\* the trigger bodies a dispatch over the registry sends
TriggersOf(rows) ==
    [h \in Hosts |->
        IF h \in {r.hostname : r \in rows}
        THEN <<[Targets |-> [x \in {r.hostname : r \in rows} \ {h} |->
                                [Links |-> BondsOf(x)]]]>>
        ELSE <<>>]

\* C24: the handler's first step is the attempt to clear the store, made
\* before any trigger exists; whether it succeeds (store emptied) or fails
\* (store as it was), the step writes no response and leaves the handler at
\* the same position with everything but the store unchanged, and the
\* dispatch that follows sends the triggers the registry determines and the
\* response is the one the collected outcomes determine, the store playing
\* no part.
C24_ClearFailureIgnored ==
    /\ [](apc = "idle" => (\A h \in Hosts : trig[h] = <<>> /\ gor[h] = "none"))
    /\ [][(apc = "idle" /\ apc' /= apc) =>
            /\ apc' = "cleared"
            /\ store' \in {[h \in Hosts |-> 0], store}
            /\ UNCHANGED <<registry, servers, trig, gor, resultsChan, loopI,
                           successCount, failedAgents, aresp, arun, post>>]_vars
    /\ [](apc = "cleared" => (aresp = NoResponse /\ ENABLED AggDispatch))
    /\ [][(apc = "cleared" /\ apc' = "collect") => trig' = TriggersOf(registry)]_vars
    /\ [][(apc = "collect" /\ apc' = "done") =>
            aresp' = TriggerResponse(successCount', Len(servers), failedAgents')]_vars

\* the clear failed (the store still holds the rows it held before the
\* trigger and nothing has been posted since) and the triggers are out
C24_Witness ==
    /\ apc = "collect"
    /\ store = [h \in Hosts |-> 1]
    /\ \A h \in Hosts : post[h] = "none"
    /\ \E h \in Hosts : trig[h] /= <<>>

\* C27: a dispatch goroutine whose outbound call returns can always send its
\* outcome and exit, while the handler collects and after it has returned:
\* every goroutine sends exactly one outcome, and the outcomes sent and not
\* yet received plus the goroutines still to send never exceed the channel's
\* capacity, one slot per registered agent.
C27_SendNeverBlocks ==
    /\ [](\A h \in Hosts : gor[h] = "posting" => ENABLED GorFinish(h))
    /\ [](Len(resultsChan) + Cardinality({h \in Hosts : gor[h] = "posting"})
             <= Len(servers))
    /\ [](Cardinality({h \in Hosts : gor[h] = "exited"}) = Len(resultsChan) + loopI)
    /\ [][\A h \in Hosts :
            (gor[h] = "posting" /\ gor'[h] = "exited") =>
                /\ Len(resultsChan') = Len(resultsChan) + 1
                /\ resultsChan'[Len(resultsChan')].hostname = h]_vars
    /\ [][\A h \in Hosts : gor[h] = "exited" => gor'[h] = "exited"]_vars

\* the handler has returned on the timeout having received nothing, the
\* channel holds all outcomes but one, and the last goroutine can still send
C27_Witness ==
    /\ apc = "done"
    /\ loopI = 0
    /\ Len(servers) = NHosts
    /\ Len(resultsChan) = Len(servers) - 1
    /\ \E h \in Hosts : gor[h] = "posting" /\ ENABLED GorFinish(h)

(***************************************************************************)
(* Package netplan: the topologies the resolver is called on.              *)
(***************************************************************************)
DeclaredBonds == {"bond0", "bond1"}

IfNames == <<"ifa", "ifb", "ifc", "ifd">>

\* the names a topology may give to its VLANs and bridges
Pool == {IfNames[k] : k \in 1..MaxIfaces}

AllNamesSeq == <<"bond0", "bond1">> \o IfNames

AllNames == DeclaredBonds \cup Pool

NameIndex(name) == CHOOSE k \in 1..Len(AllNamesSeq) : AllNamesSeq[k] = name

\* the addresses declared for an interface: one well-formed address/mask
AddrOf(name) == <<CIDRText(10, NameIndex(name), 0, 1, 24)>>

TunnelAddr == <<CIDRText(172, 16, 0, 1, 30)>>

\* how a document writes its address lists: every address with its mask, or
\* some of them without a mask, with a mask out of range, not an address, empty
AddrStyles == {"masked", "mixed"}

NotAnAddress == <<"x">>

MixedAddrs(name) ==
    LET k == NameIndex(name) % 4
    IN  CASE k = 1 -> <<IPText(10, NameIndex(name), 0, 1)>> \o AddrOf(name)
          [] k = 2 -> AddrOf(name)
          [] k = 3 -> <<CIDRText(10, NameIndex(name), 0, 1, 33)>>
          [] OTHER -> AddrOf(name) \o <<NotAnAddress, <<>>>>

AddrsOf(style, name) == IF style = "masked" THEN AddrOf(name) ELSE MixedAddrs(name)

\* the local endpoint address of a tunnel: tun0 ends on the address of bond0,
\* the other tunnel on an address no interface declares
TunnelLocal(name) ==
    IF name = "tun0" THEN IPText(10, NameIndex("bond0"), 0, 1)
    ELSE IPText(192, 0, 2, 1)

\* member lists of a bridge: one or two names
MemberLists ==
    {<<x>> : x \in AllNames}
        \cup {m \in AllNames \X AllNames : NameIndex(m[1]) < NameIndex(m[2])}

\* what a name of the pool is declared as
Shapes ==
    {[kind |-> "absent", link |-> "", members |-> <<>>]}
        \cup {[kind |-> "vlan", link |-> l, members |-> <<>>] : l \in AllNames}
        \cup {[kind |-> "bridge", link |-> "", members |-> m] : m \in MemberLists}

Layouts == [Pool -> Shapes]

\* names of the declared tunnels: none, or one of its own name and one that
\* shares its name with the first interface of the pool
TunnelNameSets == {{}, {"tun0", IfNames[1]}}

\* the Network maps of the Config for a layout
MkConfig(layout, tunnels, style) ==
    [Bonds |-> [n \in DeclaredBonds |-> [Addresses |-> AddrsOf(style, n)]],
     VLANs |-> [n \in {q \in Pool : layout[q].kind = "vlan"} |->
                   [Link |-> layout[n].link, Addresses |-> AddrsOf(style, n)]],
     Bridges |-> [n \in {q \in Pool : layout[q].kind = "bridge"} |->
                   [Interfaces |-> layout[n].members,
                    Addresses |-> AddrsOf(style, n)]],
     Tunnels |-> [n \in tunnels |->
                   [Addresses |-> TunnelAddr, Local |-> TunnelLocal(n)]]]

Configs ==
    {MkConfig(l, t, a) : l \in Layouts, t \in TunnelNameSets, a \in AddrStyles}

\* the bond names asked about: a declared bond and an undeclared one
BondQueries == {"bond0", "bond9"}

(***************************************************************************)
(* Package netplan: the relation resolver.                                 *)
(***************************************************************************)
\* the orders in which a range over a map with keys S can visit them
Orders(S) == {o \in [1..Cardinality(S) -> S] : \A j, k \in 1..Cardinality(S) :
                                                   o[j] = o[k] => j = k}

\* "for _, iface := range bridge.Interfaces { if iface == bondName"
HasMember(c, bridgeName, name) ==
    \E k \in 1..Len(c.Bridges[bridgeName].Interfaces) :
        c.Bridges[bridgeName].Interfaces[k] = name

\* (variant: VLANs that use any bond as their link)
VlansOnAnyBond(c, bond) == {v \in DOMAIN c.VLANs : c.VLANs[v].Link \in DOMAIN c.Bonds}

\* VLANs that use this bond as their link
VlansOnBond(c, bond) == {v \in DOMAIN c.VLANs : c.VLANs[v].Link = bond}

\* bridges that include this bond in their interfaces
BridgesWithBond(c, bond) == {b \in DOMAIN c.Bridges : HasMember(c, b, bond)}

\* VLANs that are built on top of bridges that include this bond
VlansOnBridgesWithBond(c, bond) ==
    {v \in DOMAIN c.VLANs : /\ c.VLANs[v].Link \in DOMAIN c.Bridges
                            /\ HasMember(c, c.VLANs[v].Link, bond)}

\* bridges that include VLANs built on top of this bond
BridgesWithVlansOnBond(c, bond) ==
    {b \in DOMAIN c.Bridges :
        \E k \in 1..Len(c.Bridges[b].Interfaces) :
            LET iface == c.Bridges[b].Interfaces[k]
            IN  iface \in DOMAIN c.VLANs /\ c.VLANs[iface].Link = bond}

isBondRelated(c, bond, interfaceName) ==
    \/ interfaceName = bond
    \/ /\ interfaceName \in DOMAIN c.VLANs
       /\ \/ c.VLANs[interfaceName].Link = bond
          \/ /\ c.VLANs[interfaceName].Link \in DOMAIN c.Bridges
             /\ HasMember(c, c.VLANs[interfaceName].Link, bond)
    \/ /\ interfaceName \in DOMAIN c.Bridges
       /\ HasMember(c, interfaceName, bond)

RelatedTunnels(c, bond) == {t \in DOMAIN c.Tunnels : isBondRelated(c, bond, t)}

\* the results GetAllBondRelatedInterfaces can return (one per iteration order
\* of the maps)
GetAllBondRelatedInterfaces(c, bond) ==
    IF bond \notin DOMAIN c.Bonds THEN {<<>>}
    ELSE {<<bond>> \o o2 \o o3 \o o4 \o o6 :
             o2 \in Orders(VlansOnBond(c, bond)),
             o3 \in Orders(BridgesWithBond(c, bond)),
             o4 \in Orders(VlansOnBridgesWithBond(c, bond)),
             o6 \in Orders(RelatedTunnels(c, bond))}

\* addIPWithMask for each address of a list
RECURSIVE addAll(_, _)
addAll(addrs, interfaceName) ==
    IF addrs = <<>> THEN <<>>
    ELSE MkIPWithMask(Head(addrs), interfaceName) \o addAll(Tail(addrs), interfaceName)

\* one range loop of GetBondIPAddressesWithMask over the selected names of a map
RECURSIVE rangeAdd(_, _, _)
rangeAdd(c, section, order) ==
    IF order = <<>> THEN <<>>
    ELSE addAll(c[section][Head(order)].Addresses, Head(order))
             \o rangeAdd(c, section, Tail(order))

\* the results GetBondIPAddressesWithMask can return
GetBondIPAddressesWithMask(c, bond) ==
    IF bond \notin DOMAIN c.Bonds THEN {<<>>}
    ELSE {addAll(c.Bonds[bond].Addresses, bond)
              \o rangeAdd(c, "VLANs", o2) \o rangeAdd(c, "Bridges", o3)
              \o rangeAdd(c, "VLANs", o4) \o rangeAdd(c, "Bridges", o5)
              \o rangeAdd(c, "Tunnels", o6) :
             o2 \in Orders(VlansOnBond(c, bond)),
             o3 \in Orders(BridgesWithBond(c, bond)),
             o4 \in Orders(VlansOnBridgesWithBond(c, bond)),
             o5 \in Orders(BridgesWithVlansOnBond(c, bond)),
             o6 \in Orders({t \in RelatedTunnels(c, bond) :
                               Len(c.Tunnels[t].Addresses) > 0})}

\* the addresses of a list with their masks cut off
Stripped(addrs) == [k \in 1..Len(addrs) |-> stripCIDR(addrs[k])]

\* what the six sections of GetBondIPAddresses append under one name
AppendedUnder(c, bond, n) ==
    (IF n = bond THEN Stripped(c.Bonds[bond].Addresses) ELSE <<>>)
    \o (IF n \in VlansOnBond(c, bond) THEN Stripped(c.VLANs[n].Addresses) ELSE <<>>)
    \o (IF n \in BridgesWithBond(c, bond) THEN Stripped(c.Bridges[n].Addresses) ELSE <<>>)
    \o (IF n \in VlansOnBridgesWithBond(c, bond) THEN Stripped(c.VLANs[n].Addresses) ELSE <<>>)
    \o (IF n \in BridgesWithVlansOnBond(c, bond) THEN Stripped(c.Bridges[n].Addresses) ELSE <<>>)
    \o (IF n \in RelatedTunnels(c, bond) THEN Stripped(c.Tunnels[n].Addresses) ELSE <<>>)

\* the map GetBondIPAddresses returns
GetBondIPAddresses(c, bond) ==
    IF bond \notin DOMAIN c.Bonds THEN <<>>
    ELSE LET names == DOMAIN c.Bonds \cup DOMAIN c.VLANs \cup DOMAIN c.Bridges
                          \cup DOMAIN c.Tunnels
         IN  [n \in {m \in names : AppendedUnder(c, bond, m) # <<>>} |->
                 AppendedUnder(c, bond, n)]

InitResolver ==
    /\ AgentAtRest
    /\ AggAtRest
    /\ AuxAtRest
    /\ cfg \in Configs
    /\ bondName \in BondQueries
    /\ returned = {}
    /\ related = <<>>
    /\ withMask = <<>>
    /\ bondIPs = <<>>

CallGetAllBondRelatedInterfaces ==
    /\ "names" \notin returned
    /\ related' \in GetAllBondRelatedInterfaces(cfg, bondName)
    /\ returned' = returned \cup {"names"}
    /\ UNCHANGED <<cfg, bondName, withMask, bondIPs>>
    /\ UNCHANGED nonResVars

CallGetBondIPAddressesWithMask ==
    /\ "mask" \notin returned
    /\ withMask' \in GetBondIPAddressesWithMask(cfg, bondName)
    /\ returned' = returned \cup {"mask"}
    /\ UNCHANGED <<cfg, bondName, related, bondIPs>>
    /\ UNCHANGED nonResVars

CallGetBondIPAddresses ==
    /\ "ips" \notin returned
    /\ bondIPs' = GetBondIPAddresses(cfg, bondName)
    /\ returned' = returned \cup {"ips"}
    /\ UNCHANGED <<cfg, bondName, related, withMask>>
    /\ UNCHANGED nonResVars

NextResolver ==
    \/ CallGetAllBondRelatedInterfaces
    \/ CallGetBondIPAddressesWithMask
    \/ CallGetBondIPAddresses

SpecResolver == InitResolver /\ [][NextResolver]_vars

(***************************************************************************)
(* Claims about the resolver (checked under SpecResolver).                 *)
(***************************************************************************)
\* the interfaces a document declares, and the section of each
DeclaredNames(c) ==
    DOMAIN c.Bonds \cup DOMAIN c.VLANs \cup DOMAIN c.Bridges \cup DOMAIN c.Tunnels

SectionsOf(c, n) ==
    {s \in {"Bonds", "VLANs", "Bridges", "Tunnels"} : n \in DOMAIN c[s]}

\* the address texts that are written as address/mask
WellFormedAddrs ==
    {AddrOf(AllNamesSeq[k])[1] : k \in 1..Len(AllNamesSeq)} \cup {TunnelAddr[1]}

\* the addresses an interface declares, over all its sections
DeclaredAddrs(c, n) ==
    UNION {{c[s][n].Addresses[k] : k \in 1..Len(c[s][n].Addresses)} :
              s \in SectionsOf(c, n)}

EveryAddressMasked(c) ==
    \A n \in DeclaredNames(c) : \A s \in SectionsOf(c, n) :
        \A k \in 1..Len(c[s][n].Addresses) : c[s][n].Addresses[k] \in WellFormedAddrs

\* one pass of the closure: VLANs whose link is in S, bridges with a member in S
ClosureStep(c, S) ==
    S \cup {v \in DOMAIN c.VLANs : c.VLANs[v].Link \in S}
      \cup {b \in DOMAIN c.Bridges : \E m \in S : HasMember(c, b, m)}

RECURSIVE ClosureFrom(_, _, _)
ClosureFrom(c, S, n) == IF n = 0 THEN S ELSE ClosureFrom(c, ClosureStep(c, S), n - 1)

\* the least fixed point from the bond (a pass per name reaches it)
Closure(c, bond) == ClosureFrom(c, {bond}, Len(AllNamesSeq))

NamesOf(seq) == {seq[k] : k \in 1..Len(seq)}

OwnersOf(seq) == {seq[k].BondName : k \in 1..Len(seq)}

\* C10: for every topology and declared bond, the names that
\* GetAllBondRelatedInterfaces returns and the owners of the entries that
\* GetBondIPAddressesWithMask returns are the least fixed point of the closure
\* from the bond (for the topologies in which every interface declares an
\* address with its mask).
C10_ResolverIsClosure ==
    (bondName \in DOMAIN cfg.Bonds /\ EveryAddressMasked(cfg)) =>
        /\ "names" \in returned => NamesOf(related) = Closure(cfg, bondName)
        /\ "mask" \in returned => OwnersOf(withMask) = Closure(cfg, bondName)

\* every name is declared in one section only
UniqueNames(c) == \A n \in DeclaredNames(c) : Cardinality(SectionsOf(c, n)) = 1

\* every VLAN links to a bond and every bridge contains bonds only
FlatGraph(c) ==
    /\ \A v \in DOMAIN c.VLANs : c.VLANs[v].Link \in DOMAIN c.Bonds
    /\ \A b \in DOMAIN c.Bridges : NamesOf(c.Bridges[b].Interfaces) \subseteq DOMAIN c.Bonds

\* the bond, the VLANs linked to it and the bridges containing it
DirectlyRelated(c, bond) ==
    {bond} \cup {v \in DOMAIN c.VLANs : c.VLANs[v].Link = bond}
           \cup {b \in DOMAIN c.Bridges : bond \in NamesOf(c.Bridges[b].Interfaces)}

EntriesFor(seq, owner, addr) ==
    {k \in 1..Len(seq) : seq[k].BondName = owner /\ seq[k].CIDR = addr}

NoRepeats(seq) == \A j, k \in 1..Len(seq) : seq[j] = seq[k] => j = k

\* C29 (as claimed): on a graph with uniquely named interfaces, each declaring
\* its address once, GetBondIPAddressesWithMask returns no (owner, CIDR) pair
\* twice and GetBondIPAddresses lists no address twice under one name, also
\* when an interface is related to the bond by more than one path.
C29_NoDuplicateEntries ==
    (bondName \in DOMAIN cfg.Bonds /\ UniqueNames(cfg) /\ EveryAddressMasked(cfg)) =>
        /\ "mask" \in returned =>
              NoRepeats([k \in 1..Len(withMask) |->
                            <<withMask[k].BondName, withMask[k].CIDR>>])
        /\ "ips" \in returned =>
              \A n \in DOMAIN bondIPs : NoRepeats(bondIPs[n])

\* C30 (as claimed): the owners of the entries of GetBondIPAddressesWithMask
\* and the keys of GetBondIPAddresses are all among the names
\* GetAllBondRelatedInterfaces returns for the same graph and bond, and for
\* a bond name that is not a declared bond all three results are empty.
C30_ResolversAgree ==
    /\ {"names", "mask"} \subseteq returned => OwnersOf(withMask) \subseteq NamesOf(related)
    /\ {"names", "ips"} \subseteq returned => DOMAIN bondIPs \subseteq NamesOf(related)
    /\ bondName \notin DOMAIN cfg.Bonds =>
          /\ "names" \in returned => related = <<>>
          /\ "mask" \in returned => withMask = <<>>
          /\ "ips" \in returned => DOMAIN bondIPs = {}

\* the interfaces that declare the local endpoint address of a tunnel
EndpointInterfaces(c, t) ==
    {n \in DeclaredNames(c) \ DOMAIN c.Tunnels :
        \E a \in DeclaredAddrs(c, n) : stripCIDR(a) = c.Tunnels[t].Local}

\* C12: a tunnel whose endpoint is the bond or an interface derived from the
\* bond is among the names GetAllBondRelatedInterfaces returns, and its
\* addresses are among the entries GetBondIPAddressesWithMask returns.
C12_TunnelOnEndpointIncluded ==
    bondName \in DOMAIN cfg.Bonds =>
        \A t \in DOMAIN cfg.Tunnels :
            EndpointInterfaces(cfg, t) \cap Closure(cfg, bondName) # {} =>
                /\ "names" \in returned => t \in NamesOf(related)
                /\ "mask" \in returned =>
                      \A a \in DeclaredAddrs(cfg, t) \cap WellFormedAddrs :
                          EntriesFor(withMask, t, a) # {}

\* a bridge that lists itself, or a VLAN linked to a bridge that contains it
Cyclic(c) ==
    \/ \E b \in DOMAIN c.Bridges : HasMember(c, b, b)
    \/ \E v \in DOMAIN c.VLANs :
          /\ c.VLANs[v].Link \in DOMAIN c.Bridges
          /\ HasMember(c, c.VLANs[v].Link, v)

\* C13: on a topology whose link/membership edges form a cycle the resolver
\* returns, and what it returns is the closure of the bond under those edges.
C13_CyclicResultIsClosure ==
    (bondName \in DOMAIN cfg.Bonds /\ EveryAddressMasked(cfg) /\ Cyclic(cfg)) =>
        /\ ENABLED CallGetAllBondRelatedInterfaces \/ "names" \in returned
        /\ ENABLED CallGetBondIPAddressesWithMask \/ "mask" \in returned
        /\ "names" \in returned => NamesOf(related) = Closure(cfg, bondName)
        /\ "mask" \in returned => OwnersOf(withMask) = Closure(cfg, bondName)

\* the interfaces whose addresses the six sections of
\* GetBondIPAddressesWithMask visit
VisitedOwners(c, bond) ==
    {bond} \cup VlansOnBond(c, bond) \cup BridgesWithBond(c, bond)
           \cup VlansOnBridgesWithBond(c, bond) \cup BridgesWithVlansOnBond(c, bond)
           \cup RelatedTunnels(c, bond)

AddrSet(addrs) == {addrs[k] : k \in 1..Len(addrs)}

\* the addresses those sections read for an interface name
VisitedAddrs(c, bond, n) ==
    (IF n = bond THEN AddrSet(c.Bonds[n].Addresses) ELSE {})
    \cup (IF n \in VlansOnBond(c, bond) \cup VlansOnBridgesWithBond(c, bond)
          THEN AddrSet(c.VLANs[n].Addresses) ELSE {})
    \cup (IF n \in BridgesWithBond(c, bond) \cup BridgesWithVlansOnBond(c, bond)
          THEN AddrSet(c.Bridges[n].Addresses) ELSE {})
    \cup (IF n \in RelatedTunnels(c, bond)
          THEN AddrSet(c.Tunnels[n].Addresses) ELSE {})

\* C16: GetBondIPAddressesWithMask returns no entry for a declared address
\* that is not written as address/mask, still returns an entry for every
\* well-formed address of the interfaces it visits, and every entry it
\* returns has a CIDR that parses (so that its IPNet is set).
C16_MalformedAddressesSkipped ==
    (bondName \in DOMAIN cfg.Bonds /\ "mask" \in returned) =>
        /\ \A k \in 1..Len(withMask) :
              /\ withMask[k].CIDR \in WellFormedAddrs
              /\ ParseCIDR(withMask[k].CIDR).ok
              /\ withMask[k].IP = stripCIDR(withMask[k].CIDR)
        /\ \A n \in VisitedOwners(cfg, bondName) :
              \A a \in VisitedAddrs(cfg, bondName, n) :
                  IF a \in WellFormedAddrs
                  THEN EntriesFor(withMask, n, a) # {}
                  ELSE EntriesFor(withMask, n, a) = {}

C16_Witness ==
    /\ bondName \in DOMAIN cfg.Bonds
    /\ "mask" \in returned
    /\ ~EveryAddressMasked(cfg)
    /\ \E n \in VisitedOwners(cfg, bondName) \ {bondName} :
          /\ VisitedAddrs(cfg, bondName, n) # {}
          /\ VisitedAddrs(cfg, bondName, n) \cap WellFormedAddrs = {}
    /\ \E n \in VisitedOwners(cfg, bondName) \ {bondName} :
          /\ NotAnAddress \in VisitedAddrs(cfg, bondName, n)
          /\ \E a \in WellFormedAddrs : EntriesFor(withMask, n, a) # {}
    /\ \E a \in VisitedAddrs(cfg, bondName, bondName) :
          a \notin WellFormedAddrs /\ EntriesFor(withMask, bondName, a) = {}
    /\ \E a \in WellFormedAddrs : EntriesFor(withMask, bondName, a) # {}

(***************************************************************************)
(* Package netplan: InSameSubnet, called on arguments written in the ways  *)
(* a descriptor or a trigger request can write them.                       *)
(***************************************************************************)
SubnetAddrs ==
    {<<10, 150, 0, 1>>, <<10, 150, 3, 253>>, <<10, 150, 4, 1>>, <<10, 151, 0, 1>>,
     <<138, 150, 0, 1>>}

SubnetMasks == {0, 1, 15, 16, 22, 32}

LocalKinds == {"cidr", "nomask", "badmask", "emptymask", "badoctet", "junk", "empty"}

RemoteKinds ==
    {"bare", "masked", "suffixed", "twice", "badoctet", "junk", "slash", "empty"}

LocalInputs ==
    {[kind |-> k, addr |-> a, mask |-> m] :
        k \in LocalKinds, a \in SubnetAddrs, m \in SubnetMasks}

RemoteInputs ==
    {[kind |-> k, addr |-> a, mask |-> m] :
        k \in RemoteKinds, a \in SubnetAddrs, m \in {22, 33}}

AddrText(a) == IPText(a[1], a[2], a[3], a[4])

\* the text of the ip1CIDR argument
LocalText(x) ==
    CASE x.kind = "cidr" -> AddrText(x.addr) \o <<"/">> \o Dec(x.mask)
      [] x.kind = "nomask" -> AddrText(x.addr)
      [] x.kind = "badmask" -> AddrText(x.addr) \o <<"/">> \o Dec(x.mask + 33)
      [] x.kind = "emptymask" -> AddrText(x.addr) \o <<"/">>
      [] x.kind = "badoctet" ->
            IPText(256, x.addr[2], x.addr[3], x.addr[4]) \o <<"/">> \o Dec(x.mask)
      [] x.kind = "junk" -> NotAnAddress \o <<"/">> \o Dec(x.mask)
      [] OTHER -> <<>>

\* the text of the ip2 argument
RemoteText(y) ==
    CASE y.kind = "bare" -> AddrText(y.addr)
      [] y.kind = "masked" -> AddrText(y.addr) \o <<"/">> \o Dec(y.mask)
      [] y.kind = "suffixed" -> AddrText(y.addr) \o <<"/">> \o NotAnAddress
      [] y.kind = "twice" ->
            AddrText(y.addr) \o <<"/">> \o Dec(y.mask) \o <<"/">> \o Dec(y.mask)
      [] y.kind = "badoctet" -> IPText(y.addr[1], y.addr[2], y.addr[3], 256)
      [] y.kind = "junk" -> NotAnAddress
      [] y.kind = "slash" -> <<"/">> \o Dec(y.mask)
      [] OTHER -> <<>>

\* ipNet1.Contains(ip2Addr) as the runtime executes it: a method call on the
\* nil *IPNet that a failed ParseCIDR returns dereferences nil
ContainsCall(ipnet, ip) ==
    IF ~ipnet.ok THEN "fault"
    ELSE IF ip = NoIP THEN "false"
    ELSE IF Contains(ipnet, ip) THEN "true" ELSE "false"

\* (variant: InSameSubnet without its two early returns)
InSameSubnetCallUnchecked(ip1CIDR, ip2) ==
    ContainsCall(ParseCIDR(ip1CIDR), ParseIP(stripCIDR(ip2)))

\* how a call of InSameSubnet ends
InSameSubnetCall(ip1CIDR, ip2) ==
    LET ipNet1 == ParseCIDR(ip1CIDR)
        ip2Addr == ParseIP(stripCIDR(ip2))
    IN  IF ~ipNet1.ok THEN "false"
        ELSE IF ip2Addr = NoIP THEN "false"
        ELSE ContainsCall(ipNet1, ip2Addr)

InitSubnet ==
    /\ AgentAtRest
    /\ AggAtRest
    /\ ResolverAtRest
    /\ RegistrationAtRest
    /\ LoaderAtRest
    /\ ValidateAtRest
    /\ ExtAtRest
    /\ ssLocal \in LocalInputs
    /\ ssRemote \in RemoteInputs
    /\ ssOut = "none"

CallInSameSubnet ==
    /\ ssOut = "none"
    /\ ssOut' = InSameSubnetCall(LocalText(ssLocal), RemoteText(ssRemote))
    /\ UNCHANGED <<ssLocal, ssRemote>>
    /\ UNCHANGED <<agentVars, aggVars, resVars, regVars, loadVars, valVars,
                 extVars>>

NextSubnet == CallInSameSubnet

SpecSubnet == InitSubnet /\ [][NextSubnet]_vars

(***************************************************************************)
(* Claims about InSameSubnet (checked under SpecSubnet).                   *)
(***************************************************************************)
\* the two 16-bit halves of an address
HighHalf(a) == a[1] * 256 + a[2]

LowHalf(a) == a[3] * 256 + a[4]

\* the address r lies in the network of address l with prefix length m
InNetwork(l, m, r) ==
    IF m <= 16
    THEN HighHalf(r) \div 2^(16 - m) = HighHalf(l) \div 2^(16 - m)
    ELSE /\ HighHalf(r) = HighHalf(l)
         /\ LowHalf(r) \div 2^(32 - m) = LowHalf(l) \div 2^(32 - m)

\* the ways of writing the arguments that parse
LocalParses(x) == x.kind = "cidr"

RemoteParses(y) == y.kind \in {"bare", "masked", "suffixed", "twice"}

\* C14: InSameSubnet returns true exactly when the local argument is written
\* as address/prefix, the remote argument without its "/suffix" is an
\* address, and that address lies in the local network; the answer for a
\* remote argument with a suffix is the answer for the bare address.
C14_TrueIffInsideNetwork ==
    ssOut # "none" =>
        /\ (ssOut = "true") <=>
               /\ LocalParses(ssLocal)
               /\ RemoteParses(ssRemote)
               /\ InNetwork(ssLocal.addr, ssLocal.mask, ssRemote.addr)
        /\ (ssOut = "true") <=> InSameSubnet(LocalText(ssLocal), RemoteText(ssRemote))
        /\ RemoteParses(ssRemote) =>
               ((ssOut = "true") <=>
                   InSameSubnet(LocalText(ssLocal), AddrText(ssRemote.addr)))

C14_Witness ==
    /\ ssOut = "true"
    /\ ssRemote.kind = "masked"
    /\ ssRemote.mask # ssLocal.mask
    /\ ssLocal.mask = 22
    /\ ssLocal.addr # ssRemote.addr

\* C15: whatever the two arguments are, a call of InSameSubnet ends with an
\* answer and not with a fault, and the answer is false when either argument
\* is empty, not an address, or a local address without a valid mask.
C15_TotalAndFalseOnMalformed ==
    ssOut # "none" =>
        /\ ssOut \in {"true", "false"}
        /\ (~LocalParses(ssLocal) \/ ~RemoteParses(ssRemote)) => ssOut = "false"

C15_Witness ==
    /\ ssOut = "false"
    /\ ssLocal.kind = "nomask"
    /\ ssRemote.kind = "bare"
    /\ ssLocal.addr = ssRemote.addr

(***************************************************************************)
(* The aggregator's registration endpoint (POST /api/register).            *)
(***************************************************************************)
\* the Hostname of a payload whose "hostname" is empty or missing
EmptyName == 0

\* the address a host registers with after its address has changed
AltIP(h) == IPText(10, 0, 1, h)

\* the request bodies: undecodable, or a RegistrationPayload
Messages ==
    {[decodes |-> FALSE, payload |-> RegistrationOf(1)]}
    \cup {[decodes |-> TRUE,
           payload |-> [Hostname |-> h, IPAddress |-> ip, SystemInfo |-> t.si,
                        Bonds |-> t.bonds]] :
             h \in Hosts \cup {EmptyName},
             ip \in {<<>>, HostIP(1), AltIP(1)},
             t \in {[si |-> "snapshot", bonds |-> BondsOf(1)],
                    [si |-> "snapshot2", bonds |-> NilBonds]}}

\* (variant: the handler without its check of ip_address)
RegistrationStatusNoIPCheck(m, writeOk) ==
    IF ~m.decodes THEN 400
    ELSE IF m.payload.Hostname = EmptyName THEN 400
    ELSE IF ~writeOk THEN 500
    ELSE 201

\* the status handleServerRegistration answers with
RegistrationStatus(m, writeOk) ==
    IF ~m.decodes THEN 400
    ELSE IF m.payload.Hostname = EmptyName THEN 400
    ELSE IF m.payload.IPAddress = <<>> THEN 400
    ELSE IF ~writeOk THEN 500
    ELSE 201

\* handleServerRegistration on request body m, the store write succeeding or not
Register(m, writeOk) ==
    /\ clock < MaxRegistrations
    /\ clock' = clock + 1
    /\ regResp' = RegistrationStatus(m, writeOk)
    /\ answered' = answered \cup {regResp'}
    /\ registry' = IF regResp' = 201 THEN Upsert(registry, m.payload, clock')
                   ELSE registry
    /\ UNCHANGED <<store, apc, servers, trig, gor, resultsChan, loopI,
                   successCount, failedAgents, aresp, arun, post, lateStored>>
    /\ UNCHANGED <<agentVars, resVars, subVars, loadVars, valVars,
                 extVars>>

HandleServerRegistration == \E m \in Messages, writeOk \in BOOLEAN : Register(m, writeOk)

InitRegistry ==
    /\ AgentAtRest
    /\ AggAtRest
    /\ ResolverAtRest
    /\ AuxAtRest

NextRegistry == HandleServerRegistration

SpecRegistry == InitRegistry /\ [][NextRegistry]_vars

(***************************************************************************)
(* Claims about registration (checked under SpecRegistry).                 *)
(***************************************************************************)
RowsOf(rows, hostname) == {r \in rows : r.hostname = hostname}

\* request bodies that are accepted when the store write succeeds
WellFormedMessages ==
    {m \in Messages : /\ m.decodes
                      /\ m.payload.Hostname # EmptyName
                      /\ m.payload.IPAddress # <<>>}

\* C17: the registry never holds two rows with one hostname; a registration
\* of a hostname that is registered replaces ip_address, system_info and
\* bonds of its row, sets last_seen to the time of this registration, and
\* leaves registered_at and all rows of other hostnames as they were.
C17_RegistryUpsert ==
    /\ [](\A r, q \in registry : r.hostname = q.hostname => r = q)
    /\ [][\A m \in WellFormedMessages :
             (Register(m, TRUE) /\ RowsOf(registry, m.payload.Hostname) # {}) =>
                 /\ \A old \in RowsOf(registry, m.payload.Hostname) :
                       RowsOf(registry', m.payload.Hostname) =
                           {[hostname |-> old.hostname,
                             ip_address |-> m.payload.IPAddress,
                             system_info |-> m.payload.SystemInfo,
                             bonds |-> jsonMarshal(m.payload.Bonds),
                             registered_at |-> old.registered_at,
                             last_seen |-> clock']}
                 /\ \A q \in registry :
                       q.hostname # m.payload.Hostname => q \in registry'
                 /\ Cardinality(registry') = Cardinality(registry)]_vars

C17_Witness ==
    /\ Cardinality(registry) = 2
    /\ \E r \in registry :
          /\ r.last_seen = clock
          /\ r.registered_at < r.last_seen
          /\ r.ip_address = AltIP(1)
          /\ r.system_info = "snapshot2"
          /\ r.bonds = jsonMarshal(NilBonds)

\* C18: a request whose body does not decode, or whose hostname or
\* ip_address is empty, is answered with 400 and leaves the registry as it
\* was; a request that fails at the store write is answered with a 5xx; after
\* either answer the handler still takes the next request.
C18_RejectedRegistrations ==
    /\ [][\A m \in Messages, writeOk \in BOOLEAN :
             Register(m, writeOk) =>
                 /\ m \notin WellFormedMessages =>
                       (regResp' = 400 /\ registry' = registry)
                 /\ (m \in WellFormedMessages /\ ~writeOk) =>
                       (regResp' \in 500..599 /\ registry' = registry)]_vars
    /\ []((regResp \in 400..599 /\ clock < MaxRegistrations) =>
             ENABLED HandleServerRegistration)

C18_Witness ==
    /\ {400, 500} \subseteq answered
    /\ regResp = 201
    /\ registry # {}

(***************************************************************************)
(* Package netplan: loading the descriptor documents of a directory.       *)
(***************************************************************************)
\* what a file of the directory holds: a document that parses (named by the
\* Config it yields), one that does not, or a file that cannot be read
GoodDocs == {"docA", "docB"}

FileKinds == GoodDocs \cup {"malformed", "unreadable"}

\* how the Glob calls end: both succeed, or one of them returns an error
GlobOutcomes == {"ok", "yaml glob failed", "yml glob failed"}

InitLoad ==
    /\ AgentAtRest
    /\ AggAtRest
    /\ ResolverAtRest
    /\ SubnetAtRest
    /\ RegistrationAtRest
    /\ ValidateAtRest
    /\ ExtAtRest
    /\ dirYaml \in SeqsUpTo(FileKinds, MaxFiles)
    /\ dirYml \in SeqsUpTo(FileKinds, 1)
    /\ globOutcome \in GlobOutcomes
    /\ loadPc = "call"
    /\ loadFiles = <<>>
    /\ loadI = 0
    /\ loadConfigs = <<>>
    /\ loadRet = NoReturn

\* the two filepath.Glob calls and files = append(files, ymlFiles...)
LoadGlob ==
    /\ loadPc = "call"
    /\ IF globOutcome # "ok"
       THEN /\ loadRet' = [configs |-> <<>>, err |-> globOutcome]
            /\ loadPc' = "returned"
            /\ UNCHANGED loadFiles
       ELSE /\ loadFiles' = dirYaml \o dirYml
            /\ loadPc' = "loop"
            /\ UNCHANGED loadRet
    /\ UNCHANGED <<dirYaml, dirYml, globOutcome, loadI, loadConfigs>>
    /\ UNCHANGED <<agentVars, aggVars, resVars, subVars, regVars, valVars,
                 extVars>>

\* one iteration of "for _, file := range files": LoadConfig and its error check
LoadFile ==
    /\ loadPc = "loop"
    /\ loadI < Len(loadFiles)
    /\ LET file == loadFiles[loadI + 1]
       IN  IF file \notin GoodDocs
           THEN /\ loadRet' = [configs |-> <<>>, err |-> "failed to load config"]
                /\ loadPc' = "returned"
                /\ UNCHANGED <<loadI, loadConfigs>>
           ELSE /\ loadConfigs' = Append(loadConfigs, file)
                /\ loadI' = loadI + 1
                /\ UNCHANGED <<loadPc, loadRet>>
    /\ UNCHANGED <<dirYaml, dirYml, globOutcome, loadFiles>>
    /\ UNCHANGED <<agentVars, aggVars, resVars, subVars, regVars, valVars,
                 extVars>>

\* "return configs, nil" after the loop
LoadReturn ==
    /\ loadPc = "loop"
    /\ loadI = Len(loadFiles)
    /\ loadRet' = [configs |-> loadConfigs, err |-> "nil"]
    /\ loadPc' = "returned"
    /\ UNCHANGED <<dirYaml, dirYml, globOutcome, loadFiles, loadI, loadConfigs>>
    /\ UNCHANGED <<agentVars, aggVars, resVars, subVars, regVars, valVars,
                 extVars>>

NextLoad == LoadGlob \/ LoadFile \/ LoadReturn

SpecLoad == InitLoad /\ [][NextLoad]_vars

(***************************************************************************)
(* Claims about the loader (checked under SpecLoad).                       *)
(***************************************************************************)
\* the documents of a file list that parse, in the order of the list
RECURSIVE ParsedOf(_)
ParsedOf(files) ==
    IF files = <<>> THEN <<>>
    ELSE (IF Head(files) \in GoodDocs THEN <<Head(files)>> ELSE <<>>)
             \o ParsedOf(Tail(files))

\* C19: when the enumeration of the files succeeds, LoadNetplanConfigsFromDir
\* returns without an error the graphs of all documents that parsed, whether
\* or not another document of the directory is malformed; it returns an
\* error only when the enumeration fails.
C19_MalformedDocumentSkipped ==
    loadPc = "returned" =>
        IF globOutcome = "ok"
        THEN /\ loadRet.err = "nil"
             /\ loadRet.configs = ParsedOf(dirYaml \o dirYml)
        ELSE loadRet.err # "nil"

(***************************************************************************)
(* Package netplan: Validate and GetInterfaceNames on one document.        *)
(***************************************************************************)
Versions == {1, 2}

Renderers == {"", "networkd", "NetworkManager", "invalid"}

CommonSections == {"Ethernets", "Wifis", "Bridges", "Bonds", "Tunnels"}

NameLens == {0, 1, 15, 16}

MTUs == {0, 67, 68, 65536, 65537}

VlanIDs == {0, 1, 4094, 4095}

VlanLinks == {"", "bond0"}

\* an interface name with n characters
NameOfLen(n) == [k \in 1..n |-> "e"]

\* address lists: none, with the mask, without it, one of each
AddrLists ==
    {<<>>, <<CIDRText(10, 0, 0, 1, 24)>>, <<IPText(10, 0, 0, 1)>>,
     <<CIDRText(10, 0, 0, 1, 24), IPText(10, 0, 0, 2)>>}

\* the documents: no interface, or one interface in one section
Docs ==
    {EmptyNetwork(v, r) : v \in Versions, r \in Renderers}
    \cup {[EmptyNetwork(v, r) EXCEPT
              ![sec] = (NameOfLen(n) :> [Addresses |-> a, MTU |-> m])] :
             v \in Versions, r \in Renderers, sec \in CommonSections,
             n \in NameLens, a \in AddrLists, m \in MTUs}
    \cup {[EmptyNetwork(v, r) EXCEPT
              !.VLANs = (NameOfLen(n) :> [Addresses |-> a, MTU |-> m,
                                          ID |-> id, Link |-> l])] :
             v \in Versions, r \in {"", "invalid"}, n \in NameLens,
             a \in AddrLists, m \in MTUs, id \in VlanIDs, l \in VlanLinks}

validateInterfaceName(name) ==
    IF name = <<>> THEN <<"name">>
    ELSE IF Len(name) > 15 THEN <<"name">>
    ELSE <<>>

\* "for _, addr := range iface.Addresses": strings.Contains(addr, "/")
RECURSIVE addressErrors(_)
addressErrors(addrs) ==
    IF addrs = <<>> THEN <<>>
    ELSE (IF IndexOf(Head(addrs), "/") = 0 THEN <<"address">> ELSE <<>>)
             \o addressErrors(Tail(addrs))

validateCommonInterface(iface) ==
    addressErrors(iface.Addresses)
        \o (IF iface.MTU # 0 /\ (iface.MTU < 68 \/ iface.MTU > 65536)
            THEN <<"mtu">> ELSE <<>>)

\* one of the loops over ethernets, wifis, bridges or bonds
RECURSIVE validateSection(_, _)
validateSection(section, order) ==
    IF order = <<>> THEN <<>>
    ELSE validateInterfaceName(Head(order))
             \o validateCommonInterface(section[Head(order)])
             \o validateSection(section, Tail(order))

\* the loop over VLANs
RECURSIVE validateVLANs(_, _)
validateVLANs(section, order) ==
    IF order = <<>> THEN <<>>
    ELSE LET vlan == section[Head(order)]
         IN  validateInterfaceName(Head(order))
                 \o (IF vlan.ID < 1 \/ vlan.ID > 4094 THEN <<"vlan id">> ELSE <<>>)
                 \o (IF vlan.Link = "" THEN <<"vlan link">> ELSE <<>>)
                 \o validateVLANs(section, Tail(order))

\* the error lists Validate can return (one per iteration order of the maps)
Validate(c) ==
    {(IF c.Version # 2 THEN <<"version">> ELSE <<>>)
        \o (IF c.Renderer # "" /\ c.Renderer \notin {"networkd", "NetworkManager"}
            THEN <<"renderer">> ELSE <<>>)
        \o validateSection(c.Ethernets, o1) \o validateSection(c.Wifis, o2)
        \o validateSection(c.Bridges, o3) \o validateSection(c.Bonds, o4)
        \o validateVLANs(c.VLANs, o5) :
            o1 \in Orders(DOMAIN c.Ethernets), o2 \in Orders(DOMAIN c.Wifis),
            o3 \in Orders(DOMAIN c.Bridges), o4 \in Orders(DOMAIN c.Bonds),
            o5 \in Orders(DOMAIN c.VLANs)}

\* the name lists GetInterfaceNames can return
GetInterfaceNames(c) ==
    {o1 \o o2 \o o3 \o o4 \o o5 \o o6 :
        o1 \in Orders(DOMAIN c.Ethernets), o2 \in Orders(DOMAIN c.Wifis),
        o3 \in Orders(DOMAIN c.Bridges), o4 \in Orders(DOMAIN c.Bonds),
        o5 \in Orders(DOMAIN c.VLANs), o6 \in Orders(DOMAIN c.Tunnels)}

InitValidate ==
    /\ AgentAtRest
    /\ AggAtRest
    /\ ResolverAtRest
    /\ SubnetAtRest
    /\ RegistrationAtRest
    /\ LoaderAtRest
    /\ ExtAtRest
    /\ doc \in Docs
    /\ valPc = "loaded"
    /\ valErrs = <<>>
    /\ ifNames = <<>>

CallValidate ==
    /\ valPc = "loaded"
    /\ valErrs' \in Validate(doc)
    /\ valPc' = "validated"
    /\ UNCHANGED <<doc, ifNames>>
    /\ UNCHANGED <<agentVars, aggVars, resVars, subVars, regVars, loadVars,
                 extVars>>

CallGetInterfaceNames ==
    /\ valPc = "validated"
    /\ ifNames' \in GetInterfaceNames(doc)
    /\ valPc' = "enumerated"
    /\ UNCHANGED <<doc, valErrs>>
    /\ UNCHANGED <<agentVars, aggVars, resVars, subVars, regVars, loadVars,
                 extVars>>

NextValidate == CallValidate \/ CallGetInterfaceNames

SpecValidate == InitValidate /\ [][NextValidate]_vars

(***************************************************************************)
(* Claims about Validate (checked under SpecValidate).                     *)
(***************************************************************************)
AllSections == CommonSections \cup {"VLANs"}

\* the interfaces of a document, as pairs of section and name
InterfacesOf(c) == {<<sec, n>> \in AllSections \X {NameOfLen(k) : k \in NameLens} :
                       n \in DOMAIN c[sec]}

\* the rules a document violates
ViolatedRules(c) ==
    (IF c.Version # 2 THEN {"version"} ELSE {})
    \cup (IF c.Renderer \notin {"", "networkd", "NetworkManager"}
          THEN {"renderer"} ELSE {})
    \cup (IF \E x \in InterfacesOf(c) : Len(x[2]) \notin 1..15 THEN {"name"} ELSE {})
    \cup (IF \E n \in DOMAIN c.VLANs :
               c.VLANs[n].ID \notin 1..4094 \/ c.VLANs[n].Link = ""
          THEN {"vlan"} ELSE {})
    \cup (IF \E x \in InterfacesOf(c) :
               c[x[1]][x[2]].MTU # 0 /\ c[x[1]][x[2]].MTU \notin 68..65536
          THEN {"mtu"} ELSE {})
    \cup (IF \E x \in InterfacesOf(c) :
               \E a \in AddrSet(c[x[1]][x[2]].Addresses) : "/" \notin AddrSet(a)
          THEN {"address"} ELSE {})

\* the rule an error of Validate is about
RuleOf(error) == IF error \in {"vlan id", "vlan link"} THEN "vlan" ELSE error

\* C20: Validate returns a non-empty error list exactly when the document
\* violates one of the rules (version, renderer, name length of every kind of
\* interface, VLAN id and link, MTU, address mask), with an error for every
\* violated rule, and the names of the document can be enumerated afterwards.
C20_ErrorsIffRuleViolated ==
    valPc # "loaded" =>
        /\ (valErrs # <<>>) <=> (ViolatedRules(doc) # {})
        /\ \A r \in ViolatedRules(doc) :
              \E k \in 1..Len(valErrs) : RuleOf(valErrs[k]) = r
        /\ valPc = "enumerated" =>
              NamesOf(ifNames) = {x[2] : x \in InterfacesOf(doc)}


(***************************************************************************)
(* Table test_results under repeated run-triggers: the aggregator's        *)
(* handleRunTests (clear, dispatch, return) and handleTestResults.         *)
(***************************************************************************)
\* the agents that are registered and post results
StoreAgents == {"h1", "h2"}

\* time.Now() when the run r builds its payload: an instant after the
\* trigger that started the run (only the order of the instants is kept)
TestedAt(r) == r.run

\* the Results slices a payload may carry: none, one result, or two
ResultLists ==
    LET t == Triple("h3", "bond0", IPText(192, 168, 1, 20))
        src == IPText(192, 168, 1, 10)
    IN  {<<>>,
         <<ArpResult(t, src, TRUE)>>,
         <<ArpResult(t, src, FALSE), HttpResult(t, src, 200)>>}

\* the request bodies the run r may post: undecodable, or a TestResultPayload
\* (run is history: the trigger that started the run)
PayloadsOf(r) ==
    {[ok |-> FALSE, source_hostname |-> r.agent, results |-> <<>>,
      tested_at |-> TestedAt(r), run |-> r.run]}
    \cup {[ok |-> TRUE, source_hostname |-> r.agent, results |-> rs,
           tested_at |-> TestedAt(r), run |-> r.run] : rs \in ResultLists}

\* the database.TestResult handleTestResults builds for results[k] and
\* SaveTestResult inserts
RowFor(m, k) ==
    [source_hostname |-> m.source_hostname,
     target_hostname |-> m.results[k].TargetHostname,
     target_ip |-> m.results[k].TargetIP,
     source_ip |-> m.results[k].SourceIP,
     bond_name |-> m.results[k].BondName,
     test_type |-> m.results[k].TestType,
     success |-> m.results[k].Success,
     error_message |-> m.results[k].ErrorMessage,
     tested_at |-> m.tested_at,
     run |-> m.run]

\* a loop that returns at the first SaveTestResult error
SaveAllUntilFailure(rows, m, fails) ==
    LET n == Len(m.results)
        F[k \in 0..n] ==
            IF k = 0 THEN rows
            ELSE IF \E j \in 1..k : j \in fails THEN F[k - 1]
            ELSE Append(F[k - 1], RowFor(m, k))
    IN  F[n]

\* the loop over payload.Results: one INSERT per result, an error is logged
\* and the loop continues (fails: the positions whose INSERT fails)
SaveAll(rows, m, fails) ==
    LET n == Len(m.results)
        F[k \in 0..n] ==
            IF k = 0 THEN rows
            ELSE IF k \in fails THEN F[k - 1]
            ELSE Append(F[k - 1], RowFor(m, k))
    IN  F[n]

InitStore ==
    /\ AgentAtRest
    /\ AggAtRest
    /\ ResolverAtRest
    /\ SubnetAtRest
    /\ RegistrationAtRest
    /\ LoaderAtRest
    /\ ValidateAtRest
    /\ PeriodicAtRest
    /\ table = <<>>
    /\ epoch = 0
    /\ lastCleared = 0
    /\ tpc = "idle"
    /\ runs = {}
    /\ ingResp = 0

\* what an action of this model leaves alone
nonStoVars == <<agentVars, aggVars, resVars, subVars, regVars, loadVars, valVars,
                perVars>>

\* handleRunTests, first section: ClearTestResults, a failure only logged
StoreClear ==
    /\ tpc = "idle"
    /\ epoch < MaxTriggers
    /\ epoch' = epoch + 1
    /\ \E ok \in BOOLEAN :
         /\ table' = IF ok THEN <<>> ELSE table
         /\ lastCleared' = IF ok THEN epoch + 1 ELSE lastCleared
    /\ tpc' = "cleared"
    /\ UNCHANGED <<runs, ingResp>>
    /\ UNCHANGED nonStoVars

\* handleRunTests, dispatch: the agent that is reachable takes the trigger and
\* its handler starts RunConnectivityTests with a go statement (the call to
\* an agent that is down returns an error and starts nothing)
StoreDispatch ==
    /\ tpc = "cleared"
    /\ \E a \in StoreAgents : runs' = runs \cup {[agent |-> a, run |-> epoch]}
    /\ tpc' = "collect"
    /\ UNCHANGED <<table, epoch, lastCleared, ingResp>>
    /\ UNCHANGED nonStoVars

\* handleRunTests: the collection loop ends and the response is written
StoreReturn ==
    /\ tpc = "collect"
    /\ tpc' = "idle"
    /\ UNCHANGED <<table, epoch, lastCleared, runs, ingResp>>
    /\ UNCHANGED nonStoVars

\* handleTestResults on the body m posted by the run r, which then ends
IngestOn(r, m, fails) ==
    /\ r \in runs
    /\ m \in PayloadsOf(r)
    /\ fails \subseteq 1..Len(m.results)
    /\ IF ~m.ok
       THEN /\ ingResp' = 400
            /\ table' = table
       ELSE /\ table' = SaveAll(table, m, fails)
            /\ ingResp' = 200
    /\ runs' = runs \ {r}
    /\ UNCHANGED <<epoch, lastCleared, tpc>>
    /\ UNCHANGED nonStoVars

HandleTestResults(r) ==
    \E m \in PayloadsOf(r) : \E fails \in SUBSET (1..Len(m.results)) :
        IngestOn(r, m, fails)

NextStore ==
    \/ StoreClear
    \/ StoreDispatch
    \/ StoreReturn
    \/ \E r \in runs : HandleTestResults(r)

SpecStore == InitStore /\ [][NextStore]_vars

\* the rows of seq from position a on
RowsFrom(seq, a) == [k \in 1..(Len(seq) - a + 1) |-> seq[a + k - 1]]

\* the results of m whose INSERT succeeds, in the payload's order, as rows
\* (written out for the payloads of at most two results)
SavedRows(m, fails) ==
    LET one(k) == IF k \in fails THEN <<>> ELSE <<RowFor(m, k)>>
    IN  IF ~m.ok \/ Len(m.results) = 0 THEN <<>>
        ELSE IF Len(m.results) = 1 THEN one(1)
        ELSE one(1) \o one(2)

\* C25: handleTestResults only appends: the rows the table held stay as they
\* were and in place, every result of the payload whose INSERT succeeds adds
\* exactly one row carrying the payload's source hostname and tested_at, also
\* when the INSERT of another result of the payload fails, and this is so at
\* every position of the run-trigger handler (window open or not).
C25_IngestOnlyAppends ==
    /\ [][\A r \in runs : \A m \in PayloadsOf(r) : \A fails \in SUBSET (1..2) :
            IngestOn(r, m, fails) =>
                /\ Len(table') >= Len(table)
                /\ SubSeq(table', 1, Len(table)) = table
                /\ RowsFrom(table', Len(table) + 1) = SavedRows(m, fails)
                /\ \A j \in (Len(table) + 1)..Len(table') :
                      /\ table'[j].source_hostname = m.source_hostname
                      /\ table'[j].tested_at = m.tested_at
                /\ tpc' = tpc]_vars
    /\ [](\A r \in runs : \A m \in PayloadsOf(r) :
             \A fails \in SUBSET (1..Len(m.results)) :
                ENABLED IngestOn(r, m, fails))

\* two payloads of two results each were taken, one of them after the window
\* had closed: of the first only the first result was saved, of the second
\* (another source) only the second, appended after the row already held
C25_Witness ==
    /\ tpc = "idle"
    /\ epoch > 0
    /\ Len(table) = 2
    /\ table[1].test_type = "arp"
    /\ table[2].test_type = "http"
    /\ table[1].source_hostname /= table[2].source_hostname
    /\ table[1].success

\* C28 (as claimed): once a run-trigger has cleared the table, every row in
\* it comes from a probe run started by that trigger or a later one.
C28_NoResultOfEarlierRun ==
    lastCleared > 0 =>
        \A k \in 1..Len(table) : table[k].run >= lastCleared


(***************************************************************************)
(* Agent.StartPeriodicRegistration, started by runAgent.                   *)
(***************************************************************************)
\* register_interval as the configuration file may give it (0: not set)
RegisterIntervals == {-5, 0, 60}

\* LoadConfig's default for the interval
WithDefault(v) == IF v = 0 THEN 300 ELSE v

InitPeriodic ==
    /\ AgentAtRest
    /\ AggAtRest
    /\ ResolverAtRest
    /\ SubnetAtRest
    /\ RegistrationAtRest
    /\ LoaderAtRest
    /\ ValidateAtRest
    /\ StoreAtRest
    /\ regInterval \in {WithDefault(v) : v \in RegisterIntervals}
    /\ ppc = "none"
    /\ attempts = 0
    /\ regFailed = FALSE
    /\ tickReady = FALSE
    /\ stopClosed = FALSE
    /\ ticksFired = 0

\* what an action of this model leaves alone
nonPerVars == <<agentVars, aggVars, resVars, subVars, regVars, loadVars, valVars,
                stoVars>>

\* go ag.StartPeriodicRegistration(...): time.NewTicker panics on a
\* non-positive interval, before anything else is done
PeriodicStart ==
    /\ ppc = "none"
    /\ ppc' = IF regInterval <= 0 THEN "panicked" ELSE "registering"
    /\ UNCHANGED <<regInterval, attempts, regFailed, tickReady, stopClosed, ticksFired>>
    /\ UNCHANGED nonPerVars

\* "Register immediately": the error is printed only
InitialRegister ==
    /\ ppc = "registering"
    /\ attempts' = attempts + 1
    /\ regFailed' \in BOOLEAN
    /\ ppc' = "select"
    /\ UNCHANGED <<regInterval, tickReady, stopClosed, ticksFired>>
    /\ UNCHANGED nonPerVars

\* the ticker puts a tick into ticker.C (capacity one; a tick that finds the
\* channel full is dropped and changes nothing)
Tick ==
    /\ ppc \in {"registering", "select"}
    /\ ~tickReady
    /\ ticksFired < MaxTicks
    /\ tickReady' = TRUE
    /\ ticksFired' = ticksFired + 1
    /\ UNCHANGED <<regInterval, ppc, attempts, regFailed, stopClosed>>
    /\ UNCHANGED nonPerVars

\* select, case <-ticker.C: Register, the error is printed only
SelectTick ==
    /\ ppc = "select"
    /\ tickReady
    /\ tickReady' = FALSE
    /\ attempts' = attempts + 1
    /\ regFailed' \in BOOLEAN
    /\ ppc' = "select"
    /\ UNCHANGED <<regInterval, stopClosed, ticksFired>>
    /\ UNCHANGED nonPerVars

\* select, case <-stopChan: return (the deferred ticker.Stop runs)
SelectStop ==
    /\ ppc = "select"
    /\ stopClosed
    /\ ppc' = "returned"
    /\ UNCHANGED <<regInterval, attempts, regFailed, tickReady, stopClosed, ticksFired>>
    /\ UNCHANGED nonPerVars

\* runAgent's signal goroutine: close(stopChan)
CloseStop ==
    /\ ppc \notin {"none", "panicked", "exited"}
    /\ ~stopClosed
    /\ stopClosed' = TRUE
    /\ UNCHANGED <<regInterval, ppc, attempts, regFailed, tickReady, ticksFired>>
    /\ UNCHANGED nonPerVars

\* runAgent's signal goroutine: server.Close() and os.Exit(0)
ProcessExit ==
    /\ stopClosed
    /\ ppc \notin {"exited"}
    /\ ppc' = "exited"
    /\ UNCHANGED <<regInterval, attempts, regFailed, tickReady, stopClosed, ticksFired>>
    /\ UNCHANGED nonPerVars

NextPeriodic ==
    \/ PeriodicStart
    \/ InitialRegister
    \/ Tick
    \/ SelectTick
    \/ SelectStop
    \/ CloseStop
    \/ ProcessExit

SpecPeriodic == InitPeriodic /\ [][NextPeriodic]_vars

\* C26 (as claimed): the first thing the started goroutine does is a
\* registration attempt; every tick taken from the ticker is followed by one
\* more attempt and the loop goes on whether or not the attempt failed, so
\* that a waiting tick can always be taken; the loop returns only after the
\* stop channel was closed, and after it has returned no attempt is made.
C26_RegistersAtStartAndOnEveryTick ==
    /\ [][(ppc = "none" /\ ppc' /= "none") => ppc' = "registering"]_vars
    /\ [][(ppc = "registering" /\ ppc' = "select") => attempts' = 1]_vars
    /\ [](ppc \in {"select", "returned"} => attempts >= 1)
    /\ [][(ppc = "select" /\ tickReady /\ ~tickReady') =>
            (attempts' = attempts + 1 /\ ppc' = "select")]_vars
    /\ [](ppc = "select" /\ tickReady => ENABLED SelectTick)
    /\ [](ppc = "returned" => stopClosed)
    /\ [][(ppc \in {"returned", "exited", "panicked"}) => (attempts' = attempts)]_vars

=============================================================================
